---- MODULE Spec2Model ----
(***************************************************************************)
(* A model of the surf browsing session: the bounded navigation history    *)
(* (jar.MemoryHistory) and the request/response engine of browser.Browser  *)
(* (buildRequest, httpRequest, httpRequestComplete, solveCF, postSend,     *)
(* shouldRedirect, Back) with the client's cookie jar and redirect loop.   *)
(*                                                                         *)
(* Pointers are modelled as sequences of length 0 (nil) or 1.              *)
(* Errors are strings, "" being the nil error.                             *)
(***************************************************************************)
EXTENDS Integers, Sequences, FiniteSets, TLC

VARIABLES
    states,         \* MemoryHistory.states
    Capacity,       \* MemoryHistory.Capacity
    state,          \* Browser.state (the current State)
    body,           \* Browser.body
    headers,        \* Browser.headers
    attributes,     \* Browser.attributes
    reloadCounter,  \* Browser.reloadCounter
    maxReloads,     \* Browser.maxReloads
    fixers,         \* Browser.pluggableContentTypeChecker, a list of MIME types
    converters,     \* the MIME types Browser.pluggable_converters has a converter for
    stack,          \* the httpRequest calls in progress, innermost first
    lastOp,         \* the operation the last step belongs to
    ret,            \* the error the last finished navigation returned
    popped,         \* what the last Pop returned
    backOk,         \* what the last Back returned
    pushed,         \* every State handed to Push so far (history specifications)
    att,            \* what the last transport round trip did
    trips,          \* round trips of the navigation in progress
    solves,         \* solve attempts of the navigation in progress
    fuel,           \* round trips of the whole session
    cookies,        \* the cookie jar of Browser.client: host -> cookie pairs
    nav0,           \* the session headers as the navigation in progress found them
    installs,       \* States the navigation in progress has installed
    lastRef,        \* the referrer the last navigation call was given
    client,         \* Browser.client: its Jar (holding cookies), Transport and Timeout
    doms,           \* AsyncStore.doms
    sets,           \* every Set the store has completed, in order
    got,            \* the last Get: the name asked and what it returned
    procs,          \* the concurrent callers: the call each is in
    locks,          \* who holds the mutex of the history and of the store
    form,           \* the Form in hand: its fields, checkboxes and buttons, and the
                    \* arguments and the error of its last Input, Submit or Click
    shadow          \* the history and the store, had the calls run one by one in the
                    \* order they took the lock; pushes counts the Pushes since the
                    \* capacity of the empty history was last set (-1 once a Pop
                    \* or a later SetCapacity has come between)

vars == <<states, Capacity, state, body, headers, attributes, reloadCounter,
          maxReloads, fixers, converters, stack, lastOp, ret, popped, backOk, pushed, att, trips,
          solves, fuel, cookies, nav0, installs, lastRef, client, doms, sets, got,
          procs, locks, form, shadow>>

(* the async store, the concurrent callers, the client configuration and   *)
(* the form                                                                *)
storeVars == <<client, doms, sets, got, procs, locks, form, shadow>>

browserVars == <<state, body, headers, attributes, reloadCounter, maxReloads,
                 fixers, converters, stack, ret, backOk, att, trips, solves, fuel,
                 cookies, nav0, installs, lastRef>>

----------------------------------------------------------------------------
(* Bounds of the model *)

MaxCap == 3
MaxPushes == 4
MaxTrips == 4
MaxFixers == 2

(* the callers that share one history and one store *)
Callers == {"c1", "c2"}

(* a caller that is in no call.  In a call, pc is "lock" before Lock has    *)
(* returned, "s1" and "s2" in the body, "ret" when the result res is ready  *)
(* and the deferred Unlock is due; want is the result of the call had the  *)
(* calls run one by one                                                    *)
Idle == [pc |-> "idle", op |-> "", arg |-> << >>, res |-> << >>, want |-> << >>]

(* ClearTimeout: 180 seconds *)
ClearedTimeout == 180

(* buildClient(): &http.Client{CheckRedirect: bow.shouldRedirect, Timeout: 0}, *)
(* a client without a jar and without a transport of its own               *)
buildClient == [Jar |-> << >>, Transport |-> << >>, Timeout |-> 0]

----------------------------------------------------------------------------
(* Values *)

Nil == << >>

Min(a, b) == IF a < b THEN a ELSE b

Some(x) == <<x>>

(* a *url.URL; Path holds the path and, for a form action, its query *)
NewURL(scheme, host, path) == [Scheme |-> scheme, Host |-> host, Path |-> path]

(* the address of a local test server, and the host solveCF evaluates for it *)
HostTest == "127.0.0.1"
HostSite == "torrentz2.eu"

Hosts == {HostTest, HostSite}

PathFeed == "/feed"
PathChk == "/cdn-cgi/l/chk_jschl"

UrlFeed == NewURL("http", HostTest, PathFeed)
UrlChk == NewURL("http", HostTest, PathChk)
UrlAction == NewURL("http", HostTest, "/feed?f&tk")
UrlSite == NewURL("https", HostSite, PathFeed)

Urls == {UrlFeed, UrlChk, UrlAction}

(* url.Values: field name -> value *)
NoValues == [n \in {} |-> ""]

NoHeaders == [n \in {} |-> ""]

HeaderSet(h, n, v) == [m \in (DOMAIN h) \cup {n} |-> IF m = n THEN v ELSE h[m]]

HeaderDel(h, n) == [m \in (DOMAIN h) \ {n} |-> h[m]]

NewHistoryState(req, resp, dom) == [Request |-> req, Response |-> resp, Dom |-> dom]

(* AsyncStore.doms of NewAsyncStore: no entry *)
NoDoms == [n \in {} |-> Nil]

(* &goquery.Document{}: a document that was parsed from nothing *)
ZeroDocument == [text |-> "", meta |-> FALSE, script |-> "zero", action |-> << >>,
                 inputs |-> NoValues]

(* The State NewBrowser installs: &jar.State{} *)
EmptyState == NewHistoryState(Nil, Nil, Nil)

(* Query is the query string of a GET built by the solver, Form the body of *)
(* a form POST                                                             *)
NewRequest(method, url, hdr) ==
    [Method |-> method, URL |-> url, Header |-> hdr, Query |-> NoValues,
     Form |-> NoValues]

----------------------------------------------------------------------------
(* jar.MemoryHistory *)

(* mutant: on overflow the newest entry is dropped instead of the oldest *)
MutPushStates(sts, cap, p) ==
    IF cap > 0
    THEN LET a == Append(sts, p)
         IN IF Len(a) > cap THEN SubSeq(a, 1, cap) ELSE a
    ELSE sts

(* mutant: Push never drops the oldest entry *)
MutPushUntrimmed(sts, cap, p) ==
    IF cap > 0 THEN Append(sts, p) ELSE sts

PushStates(sts, cap, p) ==
    IF cap > 0
    THEN LET a == Append(sts, p)
         IN IF Len(a) > cap THEN Tail(a) ELSE a
    ELSE sts

(* mutant: the sole remaining entry is removed too *)
MutPopStates(sts) ==
    IF Len(sts) > 0 THEN SubSeq(sts, 1, Len(sts) - 1) ELSE sts

PopStates(sts) ==
    IF Len(sts) > 1 THEN SubSeq(sts, 1, Len(sts) - 1) ELSE sts

(* mutant: Pop returns the oldest entry *)
MutPopValue(sts) ==
    IF Len(sts) > 0 THEN Some(sts[1]) ELSE Nil

PopValue(sts) ==
    IF Len(sts) > 0 THEN Some(sts[Len(sts)]) ELSE Nil

HistoryLen(sts) == Len(sts)

(* The States the history specifications push: three distinct requests *)
SampleStates ==
    {NewHistoryState(Some(NewRequest("GET", u, NoHeaders)), Nil, Nil) : u \in Urls}

SetCapacity(capacity) ==
    /\ Capacity' = capacity
    /\ lastOp' = "SetCapacity"
    /\ UNCHANGED storeVars
    /\ UNCHANGED <<states, popped, pushed>>
    /\ UNCHANGED browserVars

Push(p) ==
    /\ Len(pushed) < MaxPushes
    /\ states' = PushStates(states, Capacity, p)
    /\ pushed' = Append(pushed, p)
    /\ lastOp' = "Push"
    /\ UNCHANGED storeVars
    /\ UNCHANGED <<Capacity, popped>>
    /\ UNCHANGED browserVars

Pop ==
    /\ popped' = PopValue(states)
    /\ states' = PopStates(states)
    /\ lastOp' = "Pop"
    /\ UNCHANGED storeVars
    /\ UNCHANGED <<Capacity, pushed>>
    /\ UNCHANGED browserVars

----------------------------------------------------------------------------
(* jar.AsyncStore: name -> pointer to a document *)

MaxSets == 3

(* mutant: an entry, once set, is never overwritten *)
MutStoreSet(d, name, val) ==
    [m \in (DOMAIN d) \cup {name} |-> IF m \in DOMAIN d THEN d[m] ELSE val]

(* a.doms[name] = val *)
StoreSet(d, name, val) ==
    [m \in (DOMAIN d) \cup {name} |-> IF m = name THEN val ELSE d[m]]

(* what Get returns *)
StoreGet(d, name) == IF name \in DOMAIN d THEN d[name] ELSE Some(ZeroDocument)

Set(name, val) ==
    /\ Len(sets) < MaxSets
    /\ doms' = StoreSet(doms, name, val)
    /\ sets' = Append(sets, <<name, val>>)
    /\ lastOp' = "Set"
    /\ UNCHANGED form
    /\ UNCHANGED <<states, Capacity, popped, pushed, client, got, procs, locks, shadow>>
    /\ UNCHANGED browserVars

Get(name) ==
    /\ got' = [name |-> name, val |-> StoreGet(doms, name)]
    /\ lastOp' = "Get"
    /\ UNCHANGED form
    /\ UNCHANGED <<states, Capacity, popped, pushed, client, doms, sets, procs, locks,
                   shadow>>
    /\ UNCHANGED browserVars

----------------------------------------------------------------------------
(* Concurrent callers of one MemoryHistory and one AsyncStore.  Both embed  *)
(* a sync.Mutex; every method is Lock(), defer Unlock(), body.              *)

StoreOps == {"Set", "Get"}

LockOf(op) == IF op \in StoreOps THEN "store" ELSE "his"

(* caller c calls op with arguments arg *)
Invoke(c, op, arg) ==
    /\ procs[c].pc = "idle"
    /\ procs' = [procs EXCEPT ![c] = [pc |-> "lock", op |-> op, arg |-> arg,
                                       res |-> Nil, want |-> Nil]]
    /\ lastOp' = "Invoke"
    /\ UNCHANGED form
    /\ UNCHANGED <<states, Capacity, popped, pushed, client, doms, sets, got, locks, shadow>>
    /\ UNCHANGED browserVars

(* the call run alone on sh: what it leaves and what it returns *)
SeqEffect(sh, op, arg) ==
    CASE op = "Push" ->
           [sh |-> [sh EXCEPT !.states = PushStates(@, sh.Capacity, arg[1]),
                              !.pushes = IF @ < 0 THEN @ ELSE Min(@ + 1, MaxCap)],
            res |-> Some(HistoryLen(PushStates(sh.states, sh.Capacity, arg[1])))]
      [] op = "Pop" ->
           [sh |-> [sh EXCEPT !.states = PopStates(@), !.pushes = -1],
            res |-> Some(PopValue(sh.states))]
      [] op = "Top" -> [sh |-> sh, res |-> Some(PopValue(sh.states))]
      [] op = "Len" -> [sh |-> sh, res |-> Some(HistoryLen(sh.states))]
      [] op = "SetCapacity" ->
           [sh |-> [sh EXCEPT !.Capacity = arg[1],
                              !.pushes = IF sh.states = << >> THEN 0 ELSE -1],
            res |-> Nil]
      [] op = "Set" ->
           [sh |-> [sh EXCEPT !.doms = StoreSet(@, arg[1], arg[2])], res |-> Nil]
      [] op = "Get" -> [sh |-> sh, res |-> Some(StoreGet(sh.doms, arg[1]))]

(* mutant: Lock returns whether or not the mutex is held *)
MutLockFree(l, name) == TRUE

(* Lock returns only when nobody holds the mutex *)
LockFree(l, name) == l[name] = Nil

(* Lock() returns to caller c *)
Lock(c) ==
    /\ procs[c].pc = "lock"
    /\ LockFree(locks, LockOf(procs[c].op))
    /\ locks' = [locks EXCEPT ![LockOf(procs[c].op)] = Some(c)]
    /\ shadow' = SeqEffect(shadow, procs[c].op, procs[c].arg).sh
    /\ procs' = [procs EXCEPT ![c].pc = "s1",
                              ![c].want = SeqEffect(shadow, procs[c].op, procs[c].arg).res]
    /\ lastOp' = "Lock"
    /\ UNCHANGED form
    /\ UNCHANGED <<states, Capacity, popped, pushed, client, doms, sets, got>>
    /\ UNCHANGED browserVars

(* one statement of the body of Push, Pop, Top, Len or SetCapacity *)
HistoryStep(c) ==
    /\ procs[c].pc \in {"s1", "s2"}
    /\ procs[c].op \notin StoreOps
    /\ lastOp' = "HistoryStep"
    /\ UNCHANGED form
    /\ UNCHANGED <<popped, pushed, client, doms, sets, got, locks, shadow>>
    /\ UNCHANGED browserVars
    /\ LET q == procs[c]
       IN CASE q.op = "Push" /\ q.pc = "s1" ->
                 IF Capacity > 0
                 THEN /\ states' = Append(states, q.arg[1])
                      /\ procs' = [procs EXCEPT ![c].pc = "s2"]
                      /\ UNCHANGED Capacity
                 ELSE /\ procs' = [procs EXCEPT ![c].pc = "ret",
                                                ![c].res = Some(Len(states))]
                      /\ UNCHANGED <<states, Capacity>>
            [] q.op = "Push" /\ q.pc = "s2" ->
                 /\ states' = IF Len(states) > Capacity THEN Tail(states) ELSE states
                 /\ procs' = [procs EXCEPT ![c].pc = "ret", ![c].res = Some(Len(states'))]
                 /\ UNCHANGED Capacity
            [] q.op = "Pop" /\ q.pc = "s1" ->
                 /\ IF Len(states) > 0
                    THEN procs' = [procs EXCEPT
                                      ![c].pc = IF Len(states) > 1 THEN "s2" ELSE "ret",
                                      ![c].res = Some(Some(states[Len(states)]))]
                    ELSE procs' = [procs EXCEPT ![c].pc = "ret", ![c].res = Some(Nil)]
                 /\ UNCHANGED <<states, Capacity>>
            [] q.op = "Pop" /\ q.pc = "s2" ->
                 /\ states' = IF Len(states) > 0 THEN SubSeq(states, 1, Len(states) - 1)
                              ELSE states
                 /\ procs' = [procs EXCEPT ![c].pc = "ret"]
                 /\ UNCHANGED Capacity
            [] q.op = "Top" ->
                 /\ procs' = [procs EXCEPT
                                 ![c].pc = "ret",
                                 ![c].res = Some(IF Len(states) = 0 THEN Nil
                                                 ELSE Some(states[Len(states)]))]
                 /\ UNCHANGED <<states, Capacity>>
            [] q.op = "Len" ->
                 /\ procs' = [procs EXCEPT ![c].pc = "ret", ![c].res = Some(Len(states))]
                 /\ UNCHANGED <<states, Capacity>>
            [] q.op = "SetCapacity" ->
                 /\ Capacity' = q.arg[1]
                 /\ procs' = [procs EXCEPT ![c].pc = "ret"]
                 /\ UNCHANGED states

(* the body of Set or Get *)
StoreStep(c) ==
    /\ procs[c].pc = "s1"
    /\ procs[c].op \in StoreOps
    /\ lastOp' = "StoreStep"
    /\ UNCHANGED form
    /\ UNCHANGED <<states, Capacity, popped, pushed, client, sets, got, locks, shadow>>
    /\ UNCHANGED browserVars
    /\ IF procs[c].op = "Set"
       THEN /\ doms' = [m \in (DOMAIN doms) \cup {procs[c].arg[1]} |->
                           IF m = procs[c].arg[1] THEN procs[c].arg[2] ELSE doms[m]]
            /\ procs' = [procs EXCEPT ![c].pc = "ret"]
       ELSE /\ procs' = [procs EXCEPT
                            ![c].pc = "ret",
                            ![c].res = Some(IF procs[c].arg[1] \in DOMAIN doms
                                            THEN doms[procs[c].arg[1]]
                                            ELSE Some(ZeroDocument))]
            /\ UNCHANGED doms

(* the deferred Unlock() runs and the call returns res *)
Unlock(c) ==
    /\ procs[c].pc = "ret"
    /\ locks' = [locks EXCEPT ![LockOf(procs[c].op)] = Nil]
    /\ procs' = [procs EXCEPT ![c] = Idle]
    /\ lastOp' = "Unlock"
    /\ UNCHANGED form
    /\ UNCHANGED <<states, Capacity, popped, pushed, client, doms, sets, got, shadow>>
    /\ UNCHANGED browserVars

----------------------------------------------------------------------------
(* Response bodies.  A document is what goquery sees; bytes are a document *)
(* under a content encoding ("" is plain text).                            *)

(* action is the action attribute of the challenge form, in pieces so that  *)
(* an HTML entity is one piece; inputs are the form's named input values    *)
NewDoc(text, meta, script) ==
    [text |-> text, meta |-> meta, script |-> script, action |-> << >>,
     inputs |-> NoValues]

(* selection.Attr(name) on the input of that name: "" when there is none *)
Attr(doc, name) == IF name \in DOMAIN doc.inputs THEN doc.inputs[name] ELSE ""

(* the text encodings of the documents *)
Utf8 == "utf-8"
Gbk == "gbk"

NewBytes(doc, packing) == [doc |-> doc, packing |-> packing, charset |-> Utf8]

(* the same document, its text written in another encoding *)
InCharset(bytes, cs) == [bytes EXCEPT !.charset = cs]

(* bow.body before the first request: no bytes at all *)
NilBytes == NewBytes(NewDoc("", FALSE, "none"), "")

(* []byte(`<html></html>`) *)
Placeholder == NewBytes(NewDoc("<html></html>", FALSE, "none"), "")

(* What goquery parses out of bytes: compressed bytes are no markup, and   *)
(* text that is not UTF-8 comes out garbled, the markup around it intact    *)
GarbageDoc == NewDoc("garbage", FALSE, "none")

Mojibake(doc) == IF doc.text = "" THEN doc ELSE [doc EXCEPT !.text = "mojibake"]

Parse(bytes) ==
    IF bytes.packing # "" THEN GarbageDoc
    ELSE IF bytes.charset # Utf8 THEN Mojibake(bytes.doc)
    ELSE bytes.doc

NewResponse(status, server, ctype, enc, bytes, readErr) ==
    [StatusCode |-> status, Server |-> server, ContentType |-> ctype,
     ContentEncoding |-> enc, Body |-> bytes, readErr |-> readErr,
     SetCookie |-> ""]

(* &http.Response{StatusCode: 503, Request: req} *)
Synth503 == NewResponse(503, "", "", "", Nil, FALSE)

CtHtml == "text/html"
CtPlain == "text/plain"
CtGBK == "text/html; charset=GBK"
CtGbkLower == "text/html; charset=gbk"
CtJson == "application/json; charset=utf-8"
CtMp4 == "video/mp4"

----------------------------------------------------------------------------
(* browser.Browser: helpers *)

UserAgentValue == "surf"

copyHeaders(h) == [k \in DOMAIN h |-> h[k]]

(* u.String() *)
UrlString(u) == u.Scheme \o "://" \o u.Host \o u.Path

(* mutant: Referer is set whenever a referrer is supplied *)
MutbuildRequest(hdrs, method, url, ref) ==
    LET h1 == HeaderSet(copyHeaders(hdrs), "User-Agent", UserAgentValue)
        h2 == IF ref # Nil
              THEN HeaderSet(h1, "Referer", UrlString(ref[1]))
              ELSE h1
    IN NewRequest(method, url, h2)

(* ref is a pointer to a url *)
buildRequest(hdrs, method, url, ref) ==
    LET h1 == HeaderSet(copyHeaders(hdrs), "User-Agent", UserAgentValue)
        h2 == IF attributes.SendReferer /\ ref # Nil
              THEN HeaderSet(h1, "Referer", UrlString(ref[1]))
              ELSE h1
    IN NewRequest(method, url, h2)

httpPOSTRequest(hdrs, url, ref, contentType) ==
    LET r == buildRequest(hdrs, "POST", url, ref)
    IN [r EXCEPT !.Header = HeaderSet(r.Header, "Content-Type", contentType)]

StatusCode(st) == IF st.Response = Nil THEN 503 ELSE st.Response[1].StatusCode

(* res is a pointer to a response *)
isContentTypeHtml(res) ==
    IF res # Nil
    THEN res[1].ContentType = "" \/ res[1].ContentType \in {CtHtml, CtGBK, CtGbkLower}
    ELSE FALSE

(* matches[0][1] of the regexp ^([A-z\/\.\+\-]+) on a content type: its      *)
(* longest prefix of letters and / . + - (a digit ends it, like a ";")     *)
MimeOf(contentType) ==
    IF contentType \in {CtGBK, CtGbkLower} THEN CtHtml
    ELSE IF contentType = CtJson THEN "application/json"
    ELSE IF contentType = CtMp4 THEN "video/mp"
    ELSE contentType

contentFix(contentType) ==
    /\ contentType # ""
    /\ \E i \in 1..Len(fixers) : fixers[i] = MimeOf(contentType)

(* a converter the caller registers: its result names what it was given *)
Converter(bytes, contentType, url) ==
    [doc |-> NewDoc("converted(" \o bytes.doc.text \o "|" \o bytes.packing \o "|"
                        \o bytes.charset \o ", " \o contentType \o ", "
                        \o url \o ")",
                    FALSE, "none"),
     packing |-> "", charset |-> "utf-8"]

(* contentConversion(content_type, url) on bow.body = bytes: the new body *)
contentConversion(contentType, url, bytes) ==
    IF contentType # "" /\ MimeOf(contentType) \in converters
    THEN Converter(bytes, contentType, url)
    ELSE bytes

IsChallenge(resp) ==
    resp.StatusCode = 503 /\ resp.Server \in {"cloudflare-nginx", "cloudflare"}

DefaultMaxReloads == 3

(* the retry budget test of httpRequest *)
AtMax(ctr, max) ==
    (ctr >= max /\ max > 0) \/ (max = 0 /\ ctr >= DefaultMaxReloads)

ContainsChk(url) == url.Path = PathChk

----------------------------------------------------------------------------
(* Reading a body.  Each reader yields [err, bytes]: the bytes read and the *)
(* error that ended the read ("" for none).                                *)

ReadResult(err, bytes) == [err |-> err, bytes |-> bytes]

(* ioutil.ReadAll(resp.Body): the bytes as they came over the wire *)
ReadRaw(resp) ==
    IF resp.readErr THEN ReadResult("read", NilBytes)
    ELSE ReadResult("", resp.Body[1])

(* ioutil.ReadAll of the reader httpRequest picks for the content encoding,  *)
(* once the reader exists (gzip.NewReader succeeded)                        *)
ReadDecompressed(resp) ==
    IF resp.readErr THEN ReadResult("read", NilBytes)
    ELSE IF resp.ContentEncoding \in {"gzip", "deflate", "br"}
    THEN IF resp.Body[1].packing = resp.ContentEncoding
         THEN ReadResult("", [resp.Body[1] EXCEPT !.packing = ""])
         ELSE ReadResult("corrupt", NilBytes)
    ELSE ReadResult("", resp.Body[1])

(* gzip.NewReader fails on a stream without a gzip header *)
GzipHeaderBad(resp) ==
    resp.ContentEncoding = "gzip" /\ (resp.readErr \/ resp.Body[1].packing # "gzip")

(* charset.NewReader fails when the first read of the stream fails: on an   *)
(* error, or at once at the end of an empty stream                         *)
SniffFails(resp) == ReadDecompressed(resp).err # "" \/ ReadDecompressed(resp).bytes = NilBytes

(* ioutil.ReadAll(resp.Body) once a decompressing reader has read from the  *)
(* body: the reader has buffered it (bodies here fit one buffer), nothing   *)
(* is left                                                                 *)
ReadRest(resp) ==
    IF resp.readErr THEN ReadResult("read", NilBytes)
    ELSE ReadResult("", NilBytes)

(* ioutil.ReadAll(resp.Body) of the charset-exempt branch: gzip.NewReader   *)
(* has read the header by then, the other readers have read nothing yet    *)
ReadExempt(resp) ==
    IF resp.ContentEncoding = "gzip" THEN ReadRest(resp) ELSE ReadRaw(resp)

(* the charset a content type declares *)
CharsetOf(contentType) ==
    IF contentType \in {CtGBK, CtGbkLower} THEN Gbk
    ELSE IF contentType = CtJson THEN Utf8
    ELSE ""

(* a decoder from charset from to UTF-8 applied to bytes: right when the    *)
(* text is in that charset, garbling otherwise; bytes that are no text     *)
(* stay what they are                                                      *)
DecodeFrom(from, bytes) ==
    IF bytes.packing # "" \/ bytes.doc.text = "" THEN bytes
    ELSE IF bytes.charset = from THEN InCharset(bytes, Utf8)
    ELSE InCharset([bytes EXCEPT !.doc = Mojibake(@)], Utf8)

(* mahonia.NewDecoder("gbk") *)
GbkDecode(bytes) == DecodeFrom(Gbk, bytes)

(* the reader charset.NewReader(reader, contentType) returns: it decodes    *)
(* from the charset the content type declares, else from the one the page  *)
(* declares itself                                                         *)
Transcode(bytes, contentType) ==
    DecodeFrom(IF CharsetOf(contentType) # "" THEN CharsetOf(contentType)
               ELSE bytes.charset,
               bytes)

(* mutant: the charset-exempt test comes before the legacy marker *)
MutCharsetStep(resp) ==
    IF contentFix(resp.ContentType) THEN ReadExempt(resp)
    ELSE IF resp.ContentType = CtGBK
    THEN LET g == ReadDecompressed(resp)
         IN IF g.err # "" THEN g ELSE ReadResult("", GbkDecode(g.bytes))
    ELSE IF ~SniffFails(resp)
    THEN LET g == ReadDecompressed(resp)
         IN IF g.err # "" THEN g
            ELSE ReadResult("", Transcode(g.bytes, resp.ContentType))
    ELSE ReadRest(resp)

(* the charset step of httpRequest for a response that is not a 403:       *)
(* [err, bytes], bytes being what bow.body is left holding                  *)
CharsetStep(resp) ==
    IF resp.ContentType = CtGBK
    THEN LET g == ReadDecompressed(resp)
         IN IF g.err # "" THEN g ELSE ReadResult("", GbkDecode(g.bytes))
    ELSE IF ~contentFix(resp.ContentType)
    THEN IF ~SniffFails(resp)
         THEN LET g == ReadDecompressed(resp)
              IN IF g.err # "" THEN g
                 ELSE ReadResult("", Transcode(g.bytes, resp.ContentType))
         ELSE ReadRest(resp)
    ELSE ReadExempt(resp)

(* mutant: a 403 body is read as it came over the wire *)
MutRead403(resp) ==
    IF resp.Body # Nil THEN ReadRaw(resp) ELSE ReadResult("", Placeholder)

(* the 403 branch of httpRequest *)
Read403(resp) ==
    IF resp.Body # Nil THEN ReadDecompressed(resp)
    ELSE ReadResult("", Placeholder)

(* The decode steps of httpRequest after the content-encoding switch, for  *)
(* the response to a request for url                                       *)
DecodeBody(resp, url) ==
    IF resp.StatusCode # 403
    THEN LET r == CharsetStep(resp)
         IN IF r.err # "" THEN r
            ELSE ReadResult("", contentConversion(resp.ContentType, UrlString(url),
                                                  r.bytes))
    ELSE Read403(resp)

(* The body solveCF reads: gzip and deflate only *)
SolveRead(resp) ==
    IF resp.ContentEncoding = "gzip" /\ GzipHeaderBad(resp) THEN ReadResult("gzip", NilBytes)
    ELSE IF resp.ContentEncoding \in {"gzip", "deflate"} THEN ReadDecompressed(resp)
    ELSE ReadRaw(resp)

(* The script solveCF extracts, by its shape: "A" is the legacy challenge    *)
(* script, "B" the current one (it contains "e = function(s)") with its     *)
(* hidden key, "Bnokey" the current one on a page without the key, "Abad"   *)
(* a marked script the engine cannot run, "none" no marked script (js = "") *)
IsCurrentVariant(script) == script \in {"B", "Bnokey"}

HasKey(script) == script = "B"

(* the host the script is evaluated for *)
EvalHost(host) == IF host = HostTest THEN HostSite ELSE host

(* an otto value: a number (integer part and decimals) or undefined *)
JsNumber(int, frac) == [int |-> int, frac |-> frac, undefined |-> FALSE]

JsUndefined == [int |-> 0, frac |-> "", undefined |-> TRUE]

(* data.ToInteger() *)
ToInteger(v) == v.int

(* data.String() *)
String(v) ==
    IF v.undefined THEN "undefined"
    ELSE IF v.frac = "" THEN ToString(v.int)
    ELSE ToString(v.int) \o "." \o v.frac

(* jsEngine.Eval of the rewritten script: a pointer to the value, nil on an *)
(* error.  The two captured pages evaluate to the answers their tests       *)
(* expect; an empty script is an empty function body                        *)
Eval(script, host) ==
    IF script = "A" THEN Some(JsNumber(168, "5181599891"))
    ELSE IF script = "B" THEN Some(JsNumber(2, "4164645335"))
    ELSE IF script = "none" THEN Some(JsUndefined)
    ELSE Nil

(* len(host) *)
HostLen(host) == Len(host)

(* checksum = data.ToInteger() + len(host): computed, then left unused *)
Checksum(v, host) == ToInteger(v) + HostLen(host)

(* html.UnescapeString, piece by piece *)
UnescapePiece(p) == IF p = "&amp;" THEN "&" ELSE p

RECURSIVE UnescapeString(_)
UnescapeString(pieces) ==
    IF pieces = << >> THEN ""
    ELSE UnescapePiece(Head(pieces)) \o UnescapeString(Tail(pieces))

(* What solveCF does with a challenge response before any follow-up:       *)
(* "deadloop", "fail" (returns false), or the variant whose follow-up it   *)
(* sends: "A" (GET) or "B" (POST)                                          *)
SolveOutcome(resp, url) ==
    IF ContainsChk(url) THEN "deadloop"
    ELSE IF SolveRead(resp).err # "" THEN "fail"
    ELSE LET script == Parse(SolveRead(resp).bytes).script
         IN IF IsCurrentVariant(script)
            THEN IF ~HasKey(script) THEN "fail"
                 ELSE IF Eval(script, EvalHost(url.Host)) = Nil THEN "fail"
                 ELSE "B"
            ELSE IF Eval(script, EvalHost(url.Host)) = Nil THEN "fail"
                 ELSE "A"

HeadersB(hdrs, url) ==
    LET h1 == HeaderSet(hdrs, "Origin", url.Scheme \o "://" \o url.Host)
        h2 == HeaderSet(h1, "Accept", "text/html")
        h3 == HeaderSet(h2, "Accept-Language", "en-US")
        h4 == HeaderSet(h3, "Accept-Encoding", "gzip, deflate, br")
        h5 == HeaderSet(h4, "Connection", "keep-alive")
        h6 == HeaderSet(h5, "Upgrade-Insecure-Requests", "1")
    IN HeaderSet(h6, "Dnt", "1")

HeadersA(hdrs, url) ==
    LET h1 == HeaderDel(hdrs, "Cookie")
        h2 == HeaderDel(h1, "Referer")
        h3 == HeaderSet(h2, "Referer", UrlString(url))
        h4 == HeaderSet(h3, "Accept", "text/html")
        h5 == HeaderSet(h4, "Accept-Language", "ru-RU")
    IN HeaderSet(h5, "Upgrade-Insecure-Requests", "1")

FormContentType == "application/x-www-form-urlencoded"

(* mutant: the current variant submits the checksum *)
MutAnswerB(v, host) == ToString(Checksum(v, host))

(* the jschl_answer the current variant submits: data.String() *)
AnswerB(v, host) == String(v)

(* mutant: the legacy variant submits the checksum *)
MutAnswerA(v, host) == ToString(Checksum(v, host))

(* the jschl_answer the legacy variant submits: data.String() *)
AnswerA(v, host) == String(v)

(* the follow-up of the current variant: bow.PostForm(u, q, rurl), built on *)
(* the session headers hdrs from the challenge document dom                *)
FollowUpB(hdrs, dom, rurl) ==
    LET v == Eval(dom.script, EvalHost(rurl.Host))[1]
        u == NewURL(rurl.Scheme, rurl.Host, UnescapeString(dom.action))
        q == [jschl_vc |-> Attr(dom, "jschl_vc"), pass |-> Attr(dom, "pass"),
              r |-> Attr(dom, "r"),
              jschl_answer |-> AnswerB(v, EvalHost(rurl.Host))]
        req == httpPOSTRequest(HeadersB(hdrs, rurl), u, Some(rurl), FormContentType)
    IN [req EXCEPT !.Form = q]

(* mutant: the legacy follow-up goes to a fixed host, not the challenged one *)
MutFollowUpA(hdrs, dom, rurl) ==
    LET v == Eval(dom.script, EvalHost(rurl.Host))[1]
        u == NewURL("http", HostTest, PathChk)
        q == [jschl_vc |-> Attr(dom, "jschl_vc"), pass |-> Attr(dom, "pass"),
              jschl_answer |-> AnswerA(v, EvalHost(rurl.Host))]
        req == buildRequest(HeadersA(hdrs, rurl), "GET", u, Nil)
    IN [req EXCEPT !.Query = q]

(* the follow-up of the legacy variant: bow.Open(ur.String()) *)
FollowUpA(hdrs, dom, rurl) ==
    LET v == Eval(dom.script, EvalHost(rurl.Host))[1]
        u == NewURL(rurl.Scheme, rurl.Host, PathChk)
        q == [jschl_vc |-> Attr(dom, "jschl_vc"), pass |-> Attr(dom, "pass"),
              jschl_answer |-> AnswerA(v, EvalHost(rurl.Host))]
        req == buildRequest(HeadersA(hdrs, rurl), "GET", u, Nil)
    IN [req EXCEPT !.Query = q]

(* client.send: the jar's cookie for the request's host is added to the    *)
(* request (req.AddCookie)                                                 *)
AddCookie(req, c) ==
    IF c = "" THEN req
    ELSE [req EXCEPT !.Header =
             HeaderSet(@, "Cookie",
                       IF "Cookie" \in DOMAIN @ /\ @["Cookie"] # ""
                       THEN @["Cookie"] \o "; " \o c
                       ELSE c)]

(* mutant: the jar drops the cookies responses set *)
MutSetCookies(jar, url, resp) == jar

(* client.do: the jar keeps the cookie a response sets, under the host     *)
SetCookies(jar, url, resp) ==
    IF resp # Nil /\ resp[1].SetCookie # ""
    THEN [jar EXCEPT ![url.Host] = resp[1].SetCookie]
    ELSE jar

----------------------------------------------------------------------------
(* browser.Browser: the request engine.  A frame is one httpRequest call:  *)
(* pc "do" waits for the transport (of httpAsyncRequest when the frame has *)
(* pc "doAsync" and the name to store under), "solveA"/"solveB" wait in    *)
(* solveCF for                                                             *)
(* the follow-up, "postSend" waits in postSend for Reload, "ret" returns.   *)

Frame(req, resp, err, pc) ==
    [req |-> req, resp |-> resp, err |-> err, pc |-> pc, name |-> ""]

Call(req) == Frame(req, Nil, "", "do")

(* What a round trip did: how it ended, whether the response was taken for *)
(* a challenge, how many times history.Push was called, the counter and    *)
(* the limit it found, the request's URL, the response, the transport      *)
(* error, the jar's cookie that went out, the redirects the origin issued, *)
(* the requests the client made (reqs) and the redirect requests as the    *)
(* client had built them before CheckRedirect (pres), and the client that *)
(* made the round trip                                                     *)
NoAttempt ==
    [reached |-> FALSE, outcome |-> "", chal |-> FALSE, pushes |-> 0,
     ctr0 |-> 0, max0 |-> 0, url |-> UrlFeed, resp |-> Nil, err |-> "",
     cookie |-> "", hops |-> 0, reqs |-> << >>, pres |-> << >>, client |-> Nil]

(* a step that makes no round trip of its own *)
NoTrip == [hops |-> 0, reqs |-> << >>, pres |-> << >>]

Attempt(outcome, chal, pushes, url, resp, err, trip) ==
    [reached |-> TRUE, outcome |-> outcome, chal |-> chal, pushes |-> pushes,
     ctr0 |-> reloadCounter, max0 |-> maxReloads, url |-> url, resp |-> resp,
     err |-> err, cookie |-> cookies[url.Host], hops |-> trip.hops,
     reqs |-> trip.reqs, pres |-> trip.pres, client |-> Some(client)]

(* mutant: one more reload is allowed *)
MutWantsReload(resp, dom, ctr) ==
    /\ isContentTypeHtml(resp)
    /\ attributes.MetaRefreshHandling
    /\ dom.meta
    /\ ctr <= maxReloads

(* postSend's test: the new State's response is HTML, the attribute is on,  *)
(* the document has a refresh meta tag with a numeric content, and the      *)
(* counter is under maxReloads                                              *)
WantsReload(resp, dom, ctr) ==
    /\ isContentTypeHtml(resp)
    /\ attributes.MetaRefreshHandling
    /\ dom.meta
    /\ ctr < maxReloads

(* httpRequestComplete(req, resp, err), called by the innermost frame with  *)
(* bow.body = newBody, the counter at ctr and the session headers hdrs;    *)
(* rest are the frames below                                               *)
httpRequestComplete(req, resp, err, newBody, ctr, hdrs, rest) ==
    LET dom == Parse(newBody)
    IN /\ body' = newBody
       /\ headers' = hdrs
       /\ states' = PushStates(states, Capacity, state)
       /\ state' = NewHistoryState(Some(req), resp, Some(dom))
       /\ installs' = installs + 1
       /\ IF WantsReload(resp, dom, ctr)
          THEN /\ reloadCounter' = ctr + 1
               /\ stack' = <<Call(req), Frame(req, resp, err, "postSend")>> \o rest
          ELSE /\ reloadCounter' = 0
               /\ stack' = <<Frame(req, resp, err, "ret")>> \o rest

(* a return of httpRequest before httpRequestComplete *)
ReturnEarly(req, resp, err, ctr, hdrs, rest) ==
    /\ stack' = <<Frame(req, resp, err, "ret")>> \o rest
    /\ reloadCounter' = ctr
    /\ headers' = hdrs
    /\ UNCHANGED <<body, states, state, installs>>

(* What the network and the origin do with a request: hops redirect        *)
(* responses in a row (each to another host when cross is set), then a     *)
(* response, or an error with or without one                               *)
Outcome(kind, resp, err) ==
    [kind |-> kind, resp |-> resp, err |-> err, hops |-> 0, cross |-> FALSE]

Redirected(n, o) == [o EXCEPT !.hops = n]

CrossHost(o) == [o EXCEPT !.cross = TRUE]

MaxVia == 10

TooManyRedirects == "too many redirects"
RedirectsDisabled == "Redirects are disabled"

(* mutant: the original request's headers overwrite the hop's own *)
MutshouldRedirect(req, via) ==
    IF attributes.FollowRedirects
    THEN IF Len(via) >= MaxVia
         THEN [err |-> TooManyRedirects, req |-> req]
         ELSE IF Len(via) = 0
         THEN [err |-> "", req |-> req]
         ELSE [err |-> "",
               req |-> [req EXCEPT !.Header =
                           [k \in (DOMAIN via[1].Header) \cup (DOMAIN @) |->
                               IF k \in DOMAIN via[1].Header THEN via[1].Header[k]
                               ELSE @[k]]]]
    ELSE [err |-> RedirectsDisabled, req |-> req]

(* shouldRedirect(req, via): the error it returns ("" for nil) and req as  *)
(* it leaves it                                                            *)
shouldRedirect(req, via) ==
    IF attributes.FollowRedirects
    THEN IF Len(via) >= MaxVia
         THEN [err |-> TooManyRedirects, req |-> req]
         ELSE IF Len(via) = 0
         THEN [err |-> "", req |-> req]
         ELSE [err |-> "",
               req |-> [req EXCEPT !.Header =
                           [k \in (DOMAIN via[1].Header) \cup (DOMAIN @) |->
                               IF k \in DOMAIN @ THEN @[k] ELSE via[1].Header[k]]]]
    ELSE [err |-> RedirectsDisabled, req |-> req]

(* the redirect response of a hop *)
RedirectResponse == NewResponse(302, "nginx", CtHtml, "", Nil, FALSE)

OtherHost(h) == IF h = HostTest THEN HostSite ELSE HostTest

(* the headers the client does not carry over to another host *)
SensitiveHeaders == {"Authorization", "Www-Authenticate", "Cookie", "Cookie2"}

(* the request the client builds for the Location of the redirect that     *)
(* answered prev: the headers of the initial request ireq, without the     *)
(* sensitive ones when the hop leaves the initial host, and prev's URL as   *)
(* Referer                                                                 *)
RedirectRequest(ireq, prev, cross) ==
    LET host == IF cross THEN OtherHost(prev.URL.Host) ELSE prev.URL.Host
        keep == IF host = ireq.URL.Host THEN DOMAIN ireq.Header
                ELSE (DOMAIN ireq.Header) \ SensitiveHeaders
        h == [k \in keep |-> ireq.Header[k]]
    IN NewRequest("GET", NewURL(prev.URL.Scheme, host, "/hop"),
                  HeaderSet(h, "Referer", UrlString(prev.URL)))

(* client.Do(req) against an origin that behaves as o: before following a  *)
(* redirect the client asks CheckRedirect with the requests made so far;   *)
(* on its error it hands back the redirect response and the error          *)
RECURSIVE ClientDo(_, _, _, _, _)
ClientDo(req, via, pres, hops, o) ==
    IF hops = 0
    THEN [kind |-> o.kind, resp |-> o.resp, err |-> o.err, hops |-> o.hops,
          reqs |-> Append(via, req), pres |-> pres]
    ELSE LET made == Append(via, req)
             hop == RedirectRequest(made[1], req, o.cross)
             chk == shouldRedirect(hop, made)
         IN IF chk.err # ""
            THEN [kind |-> "error", resp |-> Some(RedirectResponse), err |-> chk.err,
                  hops |-> o.hops, reqs |-> made, pres |-> pres]
            ELSE ClientDo(chk.req, made, Append(pres, hop), hops - 1, o)

(* httpRequest from client.Do on: the innermost frame receives outcome o   *)
httpRequest(o) ==
    /\ stack # << >>
    /\ Head(stack).pc = "do"
    /\ fuel < MaxTrips
    /\ lastOp' = "httpRequest"
    /\ UNCHANGED storeVars
    /\ trips' = trips + 1
    /\ fuel' = fuel + 1
    /\ cookies' = SetCookies(cookies, Head(stack).req.URL, o.resp)
    /\ UNCHANGED <<Capacity, attributes, maxReloads, fixers, converters, ret,
                   popped, backOk, pushed, nav0, lastRef>>
    /\ LET req == AddCookie(Head(stack).req, cookies[Head(stack).req.URL.Host])
           rest == Tail(stack)
           d == ClientDo(req, << >>, << >>, o.hops, o)
       IN IF d.kind = "timeout"
          THEN /\ httpRequestComplete(req, Nil, "", Placeholder, reloadCounter, headers, rest)
               /\ att' = Attempt("timeout", FALSE, 1, req.URL, d.resp, d.err, d)
               /\ solves' = solves
          ELSE IF d.kind = "error"
          THEN /\ httpRequestComplete(
                      req,
                      IF d.err = "Service Unavailable" THEN Some(Synth503) ELSE d.resp,
                      d.err, Placeholder, reloadCounter, headers, rest)
               /\ att' = Attempt(IF d.hops > 0 THEN "refused" ELSE "error", FALSE, 1,
                               req.URL, d.resp, d.err, d)
               /\ solves' = solves
          ELSE LET resp == d.resp[1]
               IN IF IsChallenge(resp)
                  THEN IF AtMax(reloadCounter, maxReloads)
                       THEN /\ httpRequestComplete(req, d.resp, "maxretries", body,
                                                   reloadCounter, headers, rest)
                            /\ att' = Attempt("maxretries", TRUE, 1, req.URL, d.resp, "", d)
                            /\ solves' = solves
                       ELSE LET so == SolveOutcome(resp, req.URL)
                            IN IF so = "deadloop"
                               THEN /\ httpRequestComplete(req, d.resp, "unknownCF", body,
                                                           reloadCounter, headers, rest)
                                    /\ att' = Attempt("deadloop", TRUE, 1, req.URL, d.resp, "", d)
                                    /\ solves' = solves
                               ELSE IF so = "fail"
                               THEN /\ httpRequestComplete(req, d.resp, "unknownCF", body,
                                                           reloadCounter + 1, headers, rest)
                                    /\ att' = Attempt("unsolved", TRUE, 1, req.URL, d.resp, "", d)
                                    /\ solves' = solves + 1
                               ELSE IF so = "B"
                               THEN /\ headers' = HeadersB(headers, req.URL)
                                    /\ reloadCounter' = reloadCounter + 1
                                    /\ stack' = <<Call(FollowUpB(
                                                          headers,
                                                          Parse(SolveRead(resp).bytes),
                                                          req.URL)),
                                                  Frame(req, d.resp, "", "solveB")>> \o rest
                                    /\ att' = Attempt("followup", TRUE, 0, req.URL, d.resp, "", d)
                                    /\ solves' = solves + 1
                                    /\ UNCHANGED <<body, states, state, installs>>
                               ELSE /\ headers' = HeadersA(headers, req.URL)
                                    /\ reloadCounter' = reloadCounter + 1
                                    /\ stack' = <<Call(FollowUpA(
                                                          headers,
                                                          Parse(SolveRead(resp).bytes),
                                                          req.URL)),
                                                  Frame(req, d.resp, "", "solveA")>> \o rest
                                    /\ att' = Attempt("followup", TRUE, 0, req.URL, d.resp, "", d)
                                    /\ solves' = solves + 1
                                    /\ UNCHANGED <<body, states, state, installs>>
                  ELSE IF GzipHeaderBad(resp)
                  THEN /\ ReturnEarly(req, d.resp, "gzip", reloadCounter, headers, rest)
                       /\ att' = Attempt("gzip", FALSE, 0, req.URL, d.resp, "", d)
                       /\ solves' = solves
                  ELSE /\ httpRequestComplete(req, d.resp, DecodeBody(resp, req.URL).err,
                                              DecodeBody(resp, req.URL).bytes, reloadCounter,
                                              headers, rest)
                       /\ att' = Attempt(IF DecodeBody(resp, req.URL).err # "" THEN "decode"
                                         ELSE IF resp.StatusCode = 403 THEN "403"
                                         ELSE "ok",
                                         FALSE, 1, req.URL, d.resp, "", d)
                       /\ solves' = solves

(* The innermost httpRequest returns: to the top-level caller, to solveCF  *)
(* (after its follow-up) or to postSend (after its Reload)                  *)
Return ==
    /\ stack # << >>
    /\ Head(stack).pc = "ret"
    /\ lastOp' = "Return"
    /\ UNCHANGED storeVars
    /\ UNCHANGED <<Capacity, attributes, maxReloads, fixers, converters, popped,
                   backOk, pushed, trips, solves, fuel, cookies, nav0, lastRef>>
    /\ LET f == Head(stack)
           rest == Tail(stack)
       IN IF rest = << >>
          THEN /\ ret' = f.err
               /\ stack' = << >>
               /\ UNCHANGED <<body, headers, states, state, reloadCounter, att,
                              installs>>
          ELSE LET c == Head(rest)
                   below == Tail(rest)
               IN /\ ret' = ret
                  /\ IF c.pc = "solveB" /\ StatusCode(state) = 403
                     THEN /\ httpRequestComplete(c.req, c.resp, "unknownCF", body,
                                                 reloadCounter, headers, below)
                          /\ att' = Attempt("unsolved403", TRUE, 1, c.req.URL, c.resp, "", NoTrip)
                     ELSE IF c.pc = "postSend"
                     THEN /\ reloadCounter' = 0
                          /\ stack' = <<Frame(c.req, c.resp, c.err, "ret")>> \o below
                          /\ UNCHANGED <<body, headers, states, state, att, installs>>
                     ELSE /\ stack' = <<Frame(c.req, c.resp, "", "ret")>> \o below
                          /\ UNCHANGED <<body, headers, states, state, reloadCounter, att,
                                         installs>>

(* Open(u): httpGET(u, nil) up to client.Do *)
Open(u) ==
    /\ stack = << >>
    /\ fuel < MaxTrips
    /\ stack' = <<Call(buildRequest(headers, "GET", u, Nil))>>
    /\ lastOp' = "Open"
    /\ UNCHANGED storeVars
    /\ ret' = ""
    /\ att' = NoAttempt
    /\ trips' = 0
    /\ solves' = 0
    /\ nav0' = headers
    /\ installs' = 0
    /\ lastRef' = Nil
    /\ UNCHANGED <<states, Capacity, state, body, headers, attributes, reloadCounter,
                   maxReloads, fixers, converters, popped, backOk, pushed, fuel,
                   cookies>>

(* Post(u, contentType, body, ref): httpPOST(u, ref, contentType, body) up *)
(* to client.Do                                                            *)
Post(u, contentType, ref) ==
    /\ stack = << >>
    /\ fuel < MaxTrips
    /\ stack' = <<Call(httpPOSTRequest(headers, u, ref, contentType))>>
    /\ lastOp' = "Post"
    /\ UNCHANGED storeVars
    /\ ret' = ""
    /\ att' = NoAttempt
    /\ trips' = 0
    /\ solves' = 0
    /\ nav0' = headers
    /\ installs' = 0
    /\ lastRef' = ref
    /\ UNCHANGED <<states, Capacity, state, body, headers, attributes, reloadCounter,
                   maxReloads, fixers, converters, popped, backOk, pushed, fuel,
                   cookies>>

(* SetTimeout(t) *)
SetTimeout(t) ==
    /\ stack = << >>
    /\ fuel = 0
    /\ client' = [client EXCEPT !.Timeout = t]
    /\ lastOp' = "SetTimeout"
    /\ UNCHANGED form
    /\ UNCHANGED <<states, Capacity, popped, pushed, doms, sets, got, procs, locks, shadow>>
    /\ UNCHANGED browserVars

(* SetTransport(t) *)
SetTransport(t) ==
    /\ stack = << >>
    /\ fuel = 0
    /\ client' = [client EXCEPT !.Transport = Some(t)]
    /\ lastOp' = "SetTransport"
    /\ UNCHANGED form
    /\ UNCHANGED <<states, Capacity, popped, pushed, doms, sets, got, procs, locks, shadow>>
    /\ UNCHANGED browserVars

(* SetCookieJar(cj) with a jar that holds no cookie yet *)
SetCookieJar(cj) ==
    /\ stack = << >>
    /\ fuel = 0
    /\ client' = [client EXCEPT !.Jar = Some(cj)]
    /\ cookies' = [h \in Hosts |-> ""]
    /\ lastOp' = "SetCookieJar"
    /\ UNCHANGED form
    /\ UNCHANGED <<states, Capacity, popped, pushed, doms, sets, got, procs, locks, shadow>>
    /\ UNCHANGED <<state, body, headers, attributes, reloadCounter, maxReloads, fixers,
                   converters, stack, ret, backOk, att, trips, solves, fuel, nav0,
                   installs, lastRef>>

(* the charset step of httpAsyncRequest: every branch reads resp.Body       *)
(* itself, and a failed read leaves the placeholder                        *)
AsyncCharsetStep(resp) ==
    IF resp.ContentType = CtGBK
    THEN IF ReadRaw(resp).err # "" THEN Placeholder
         ELSE GbkDecode(ReadRaw(resp).bytes)
    ELSE IF ~contentFix(resp.ContentType)
    THEN IF ReadRaw(resp).err = "" /\ ReadRaw(resp).bytes # NilBytes
         THEN Transcode(ReadRaw(resp).bytes, resp.ContentType)
         ELSE IF resp.readErr THEN Placeholder ELSE NilBytes
    ELSE IF ReadRaw(resp).err # "" THEN Placeholder
         ELSE ReadRaw(resp).bytes

(* mutant: without a response the bytes are left empty *)
MutAsyncBody(resp, url) ==
    IF resp = Nil THEN NilBytes
    ELSE IF resp[1].StatusCode # 403
    THEN contentConversion(resp[1].ContentType, UrlString(url), AsyncCharsetStep(resp[1]))
    ELSE Placeholder

(* bb of httpAsyncRequest for the response pointer client.Do returned *)
AsyncBody(resp, url) ==
    IF resp = Nil THEN Placeholder
    ELSE IF resp[1].StatusCode # 403
    THEN contentConversion(resp[1].ContentType, UrlString(url), AsyncCharsetStep(resp[1]))
    ELSE Placeholder

(* httpAsyncRequest from buildClient().Do on: the frame receives outcome o. *)
(* The client is a new one, so no cookie of the session's jar goes out and *)
(* none comes in.  The response an error comes with has its body closed.   *)
httpAsyncRequest(o) ==
    /\ stack # << >>
    /\ Head(stack).pc = "doAsync"
    /\ fuel < MaxTrips
    /\ lastOp' = "httpAsyncRequest"
    /\ UNCHANGED form
    /\ trips' = trips + 1
    /\ fuel' = fuel + 1
    /\ UNCHANGED <<Capacity, body, headers, attributes, maxReloads, fixers, converters,
                   ret, popped, backOk, pushed, solves, cookies, nav0, lastRef>>
    /\ UNCHANGED <<client, got, procs, locks, shadow>>
    /\ LET req == Head(stack).req
           name == Head(stack).name
           rest == Tail(stack)
           d == ClientDo(req, << >>, << >>, o.hops, o)
           resp == IF d.kind = "error" /\ d.resp # Nil
                   THEN Some([d.resp[1] EXCEPT !.readErr = TRUE])
                   ELSE d.resp
           dom == Parse(AsyncBody(resp, req.URL))
       IN /\ doms' = StoreSet(doms, name, Some(dom))
          /\ sets' = Append(sets, <<name, Some(dom)>>)
          /\ states' = PushStates(states, Capacity, state)
          /\ state' = NewHistoryState(Some(req), d.resp, Some(dom))
          /\ installs' = installs + 1
          /\ att' = [Attempt(IF d.kind = "ok" THEN "async" ELSE d.kind, FALSE, 1, req.URL,
                             d.resp, d.err, d)
                        EXCEPT !.client = Some(buildClient), !.cookie = ""]
          /\ IF WantsReload(d.resp, dom, reloadCounter)
             THEN /\ reloadCounter' = reloadCounter + 1
                  /\ stack' = <<Call(req), Frame(req, d.resp, "", "postSend")>> \o rest
             ELSE /\ reloadCounter' = 0
                  /\ stack' = <<Frame(req, d.resp, "", "ret")>> \o rest

(* OpenAsync(u, name): httpAsyncGET(u, nil, name) up to buildClient().Do *)
OpenAsync(u, name) ==
    /\ stack = << >>
    /\ fuel < MaxTrips
    /\ stack' = <<[Call(buildRequest(headers, "GET", u, Nil))
                      EXCEPT !.pc = "doAsync", !.name = name]>>
    /\ lastOp' = "OpenAsync"
    /\ UNCHANGED storeVars
    /\ ret' = ""
    /\ att' = NoAttempt
    /\ trips' = 0
    /\ solves' = 0
    /\ nav0' = headers
    /\ installs' = 0
    /\ lastRef' = Nil
    /\ UNCHANGED <<states, Capacity, state, body, headers, attributes, reloadCounter,
                   maxReloads, fixers, converters, popped, backOk, pushed, fuel,
                   cookies>>

(* Download(o): the bytes it copies to o *)
Download == body

PageNotLoaded == "Cannot reload, the previous request failed."

(* Reload(): httpRequest(bow.state.Request) up to client.Do when the       *)
(* current State has a request, the PageNotLoaded error otherwise           *)
Reload ==
    /\ stack = << >>
    /\ fuel < MaxTrips
    /\ lastOp' = "Reload"
    /\ UNCHANGED storeVars
    /\ att' = NoAttempt
    /\ trips' = 0
    /\ solves' = 0
    /\ nav0' = headers
    /\ installs' = 0
    /\ lastRef' = Nil
    /\ IF state.Request # Nil
       THEN /\ stack' = <<Call(state.Request[1])>>
            /\ ret' = ""
       ELSE /\ stack' = << >>
            /\ ret' = PageNotLoaded
    /\ UNCHANGED <<states, Capacity, state, body, headers, attributes, reloadCounter,
                   maxReloads, fixers, converters, popped, backOk, pushed, fuel,
                   cookies>>

----------------------------------------------------------------------------
(* browser.Form: fields, checkboxes and buttons are the lists serializeForm *)
(* made of the form's named elements, in document order                    *)

Field(name, value) == [name |-> name, value |-> value]

Checkbox(name, value, checked) == [name |-> name, value |-> value, checked |-> checked]

Button(name, value) == [name |-> name, value |-> value]

NewFormOf(method, enctype, action, fields, checkboxes, buttons) ==
    [made |-> TRUE, method |-> method, enctype |-> enctype, action |-> action,
     fields |-> fields, checkboxes |-> checkboxes, buttons |-> buttons, err |-> "",
     arg |-> << >>]

(* no Form was made yet *)
NoForm == [NewFormOf("GET", "", UrlFeed, << >>, << >>, << >>) EXCEPT !.made = FALSE]

ElementNotFound(name) == "No input found with name '" \o name \o "'."

InvalidFormValue(button) ==
    "Form does not contain a button with the name '" \o button \o "'."

MultipartContentType == "multipart/form-data"

(* the first loop of Input *)
InputFields(fields, name, value) ==
    [i \in 1..Len(fields) |->
        IF fields[i].name = name THEN [fields[i] EXCEPT !.value = value] ELSE fields[i]]

(* mutant: a matching checkbox is checked, whatever it was *)
MutInputCheckboxes(checkboxes, name, value) ==
    [i \in 1..Len(checkboxes) |->
        IF checkboxes[i].name = name /\ checkboxes[i].value = value
        THEN [checkboxes[i] EXCEPT !.checked = TRUE]
        ELSE checkboxes[i]]

(* the second loop of Input *)
InputCheckboxes(checkboxes, name, value) ==
    [i \in 1..Len(checkboxes) |->
        IF checkboxes[i].name = name /\ checkboxes[i].value = value
        THEN [checkboxes[i] EXCEPT !.checked = ~checkboxes[i].checked]
        ELSE checkboxes[i]]

(* found, at the end of Input's loops *)
InputFound(f, name, value) ==
    \/ \E i \in 1..Len(f.fields) : f.fields[i].name = name
    \/ \E i \in 1..Len(f.checkboxes) :
           f.checkboxes[i].name = name /\ f.checkboxes[i].value = value

(* Form.Input(name, value) *)
Input(name, value) ==
    /\ form.made
    /\ stack = << >>
    /\ form' = [form EXCEPT
                   !.fields = InputFields(@, name, value),
                   !.checkboxes = InputCheckboxes(@, name, value),
                   !.err = IF InputFound(form, name, value) THEN ""
                           ELSE ElementNotFound(name),
                   !.arg = <<name, value>>]
    /\ lastOp' = "Input"
    /\ UNCHANGED <<states, Capacity, popped, pushed, client, doms, sets, got, procs, locks,
                   shadow>>
    /\ UNCHANGED browserVars

(* url.Values.Add(name, value) *)
ValuesAdd(values, name, value) ==
    [n \in (DOMAIN values) \cup {name} |->
        IF n = name
        THEN IF n \in DOMAIN values THEN Append(values[n], value) ELSE <<value>>
        ELSE values[n]]

(* values.Add(e.name, e.value) for the elements of list, in order *)
RECURSIVE AddAll(_, _)
AddAll(values, list) ==
    IF list = << >> THEN values
    ELSE AddAll(ValuesAdd(values, Head(list).name, Head(list).value), Tail(list))

IsChecked(c) == c.checked

(* mutant: every checkbox is sent *)
MutFormValues(f, buttonName, buttonValue) ==
    LET v1 == AddAll(NoValues, f.fields)
        v2 == AddAll(v1, f.checkboxes)
    IN IF buttonName # "" THEN ValuesAdd(v2, buttonName, buttonValue) ELSE v2

(* the values send(buttonName, buttonValue) collects *)
FormValues(f, buttonName, buttonValue) ==
    LET v1 == AddAll(NoValues, f.fields)
        v2 == AddAll(v1, SelectSeq(f.checkboxes, IsChecked))
    IN IF buttonName # "" THEN ValuesAdd(v2, buttonName, buttonValue) ELSE v2

(* the request send(buttonName, buttonValue) has the browser make: OpenForm *)
(* puts the encoded values in place of the action's query, PostForm and    *)
(* PostMultipart send them as the body                                     *)
FormRequest(f, buttonName, buttonValue) ==
    IF f.method = "GET"
    THEN [buildRequest(headers, "GET", f.action, Nil)
             EXCEPT !.Query = FormValues(f, buttonName, buttonValue)]
    ELSE [httpPOSTRequest(headers, f.action, Nil,
                          IF f.enctype = MultipartContentType THEN MultipartContentType
                          ELSE "application/x-www-form-urlencoded")
             EXCEPT !.Form = FormValues(f, buttonName, buttonValue)]

(* send(buttonName, buttonValue) up to client.Do; arg are the arguments of  *)
(* the Submit or Click that got here                                       *)
send(buttonName, buttonValue, arg) ==
    /\ stack' = <<Call(FormRequest(form, buttonName, buttonValue))>>
    /\ form' = [form EXCEPT !.err = "", !.arg = arg]
    /\ ret' = ""
    /\ att' = NoAttempt
    /\ trips' = 0
    /\ solves' = 0
    /\ nav0' = headers
    /\ installs' = 0
    /\ lastRef' = Nil

(* the index of the button Click(button) finds, 0 when there is none *)
ClickFinds(buttons, button) ==
    IF \E i \in 1..Len(buttons) : buttons[i].name = button
    THEN CHOOSE i \in 1..Len(buttons) :
             /\ buttons[i].name = button
             /\ \A j \in 1..(i - 1) : buttons[j].name # button
    ELSE 0

(* the body of Click(button) *)
ClickBody(button, arg) ==
    LET i == ClickFinds(form.buttons, button)
    IN IF i = 0
       THEN /\ form' = [form EXCEPT !.err = InvalidFormValue(button), !.arg = arg]
            /\ UNCHANGED <<stack, ret, att, trips, solves, nav0, installs, lastRef>>
       ELSE send(form.buttons[i].name, form.buttons[i].value, arg)

(* Form.Click(button) *)
Click(button) ==
    /\ form.made
    /\ stack = << >>
    /\ fuel < MaxTrips
    /\ lastOp' = "Click"
    /\ ClickBody(button, <<button>>)
    /\ UNCHANGED <<states, Capacity, popped, pushed, client, doms, sets, got, procs, locks,
                   shadow>>
    /\ UNCHANGED <<state, body, headers, attributes, reloadCounter, maxReloads, fixers,
                   converters, backOk, fuel, cookies>>

(* Form.Submit() *)
Submit ==
    /\ form.made
    /\ stack = << >>
    /\ fuel < MaxTrips
    /\ lastOp' = "Submit"
    /\ IF Len(form.buttons) > 0
       THEN ClickBody(form.buttons[1].name, << >>)
       ELSE send("", "", << >>)
    /\ UNCHANGED <<states, Capacity, popped, pushed, client, doms, sets, got, procs, locks,
                   shadow>>
    /\ UNCHANGED <<state, body, headers, attributes, reloadCounter, maxReloads, fixers,
                   converters, backOk, fuel, cookies>>

(* NewForm(bow, s) for a form element whose lists serializeForm made *)
NewForm(f) ==
    /\ ~form.made
    /\ stack = << >>
    /\ form' = f
    /\ lastOp' = "NewForm"
    /\ UNCHANGED <<states, Capacity, popped, pushed, client, doms, sets, got, procs, locks,
                   shadow>>
    /\ UNCHANGED browserVars

(* mutant: Back also succeeds on a history of one entry *)
MutBackAllowed(sts) == HistoryLen(sts) > 0

(* Back's test: bow.history.Len() > 1 *)
BackAllowed(sts) == HistoryLen(sts) > 1

Back ==
    /\ stack = << >>
    /\ lastOp' = "Back"
    /\ UNCHANGED storeVars
    /\ backOk' = BackAllowed(states)
    /\ IF BackAllowed(states)
       THEN /\ state' = PopValue(states)[1]
            /\ states' = PopStates(states)
       ELSE UNCHANGED <<state, states>>
    /\ UNCHANGED <<Capacity, body, headers, attributes, reloadCounter, maxReloads,
                   fixers, converters, stack, ret, popped, pushed, att, trips,
                   solves, fuel, cookies, nav0, installs,
                   lastRef>>

(* Back called by caller c, statement by statement.  Len and Pop each take *)
(* the mutex of the history and give it back before they return; between   *)
(* the two calls the mutex is free.                                        *)
(* c evaluates bow.history.Len() > 1; want keeps the length it saw *)
BackLen(c) ==
    /\ stack = << >>
    /\ procs[c].pc = "idle"
    /\ LockFree(locks, "his")
    /\ procs' = [procs EXCEPT ![c] = [pc |-> IF BackAllowed(states) THEN "backPop"
                                             ELSE "backRet",
                                      op |-> "Back", arg |-> << >>,
                                      res |-> Some(BackAllowed(states)),
                                      want |-> Some(HistoryLen(states))]]
    /\ lastOp' = "BackLen"
    /\ UNCHANGED form
    /\ UNCHANGED <<states, Capacity, popped, pushed, client, doms, sets, got, locks, shadow>>
    /\ UNCHANGED browserVars

(* c runs bow.state = bow.history.Pop() *)
BackPop(c) ==
    /\ procs[c].pc = "backPop"
    /\ LockFree(locks, "his")
    /\ state' = PopValue(states)[1]
    /\ states' = PopStates(states)
    /\ procs' = [procs EXCEPT ![c].pc = "backRet"]
    /\ lastOp' = "BackPop"
    /\ UNCHANGED form
    /\ UNCHANGED <<Capacity, popped, pushed, client, doms, sets, got, locks, shadow>>
    /\ UNCHANGED <<body, headers, attributes, reloadCounter, maxReloads, fixers,
                   converters, stack, ret, backOk, att, trips, solves, fuel, cookies,
                   nav0, installs, lastRef>>

(* Back returns to c *)
BackReturn(c) ==
    /\ procs[c].pc = "backRet"
    /\ backOk' = procs[c].res[1]
    /\ procs' = [procs EXCEPT ![c] = Idle]
    /\ lastOp' = "BackReturn"
    /\ UNCHANGED form
    /\ UNCHANGED <<states, Capacity, popped, pushed, client, doms, sets, got, locks, shadow>>
    /\ UNCHANGED <<state, body, headers, attributes, reloadCounter, maxReloads, fixers,
                   converters, stack, ret, att, trips, solves, fuel, cookies,
                   nav0, installs, lastRef>>

SetHistoryCapacity(capacity) ==
    /\ stack = << >>
    /\ fuel = 0
    /\ Capacity' = capacity
    /\ lastOp' = "SetHistoryCapacity"
    /\ UNCHANGED storeVars
    /\ UNCHANGED <<states, popped, pushed>>
    /\ UNCHANGED browserVars

SetMaxReloads(max) ==
    /\ stack = << >>
    /\ fuel = 0
    /\ maxReloads' = max
    /\ lastOp' = "SetMaxReloads"
    /\ UNCHANGED storeVars
    /\ UNCHANGED <<states, Capacity, state, body, headers, attributes, reloadCounter,
                   fixers, converters, stack, ret, popped, backOk, pushed, att,
                   trips, solves, fuel, cookies, nav0, installs,
                   lastRef>>

AddRequestHeader(name, value) ==
    /\ stack = << >>
    /\ fuel = 0
    /\ headers' = HeaderSet(headers, name, value)
    /\ lastOp' = "AddRequestHeader"
    /\ UNCHANGED storeVars
    /\ UNCHANGED <<states, Capacity, state, body, attributes, reloadCounter,
                   maxReloads, fixers, converters, stack, ret, popped, backOk,
                   pushed, att, trips, solves, fuel, cookies, nav0, installs,
                   lastRef>>

SetContentFixer(content_type) ==
    /\ stack = << >>
    /\ fuel = 0
    /\ Len(fixers) < MaxFixers
    /\ fixers' = Append(fixers, content_type)
    /\ lastOp' = "SetContentFixer"
    /\ UNCHANGED storeVars
    /\ UNCHANGED <<states, Capacity, state, body, headers, attributes, reloadCounter,
                   maxReloads, converters, stack, ret, popped, backOk, pushed, att,
                   trips, solves, fuel, cookies, nav0, installs, lastRef>>

SetConverter(content_type) ==
    /\ stack = << >>
    /\ converters' = converters \cup {content_type}
    /\ lastOp' = "SetConverter"
    /\ UNCHANGED storeVars
    /\ UNCHANGED <<states, Capacity, state, body, headers, attributes, reloadCounter,
                   maxReloads, fixers, stack, ret, popped, backOk, pushed, att,
                   trips, solves, fuel, cookies, nav0, installs, lastRef>>

ClearConverter(content_type) ==
    /\ stack = << >>
    /\ converters' = converters \ {content_type}
    /\ lastOp' = "ClearConverter"
    /\ UNCHANGED storeVars
    /\ UNCHANGED <<states, Capacity, state, body, headers, attributes, reloadCounter,
                   maxReloads, fixers, stack, ret, popped, backOk, pushed, att,
                   trips, solves, fuel, cookies, nav0, installs, lastRef>>

SetAttribute(a, v) ==
    /\ stack = << >>
    /\ attributes' = [attributes EXCEPT ![a] = v]
    /\ lastOp' = "SetAttribute"
    /\ UNCHANGED storeVars
    /\ UNCHANGED <<states, Capacity, state, body, headers, reloadCounter, maxReloads,
                   fixers, converters, stack, ret, popped, backOk, pushed, att,
                   trips, solves, fuel, cookies, nav0, installs,
                   lastRef>>

----------------------------------------------------------------------------
(* What the origin and the network may answer *)

PageDoc == NewDoc("page", FALSE, "none")
RefreshDoc == NewDoc("page", TRUE, "none")
(* a challenge page: its form's action and its hidden inputs *)
NewChallenge(script, action, inputs) ==
    [NewDoc("challenge", FALSE, script) EXCEPT !.action = action, !.inputs = inputs]

ActionB == <<"/feed?f", "&amp;", "tk">>

InputsA == [jschl_vc |-> "vc-a", pass |-> "pass-a"]
InputsB == [jschl_vc |-> "vc-b", pass |-> "pass-b", r |-> "r-b"]

ChallengeA == NewChallenge("A", <<PathChk>>, InputsA)
ChallengeB == NewChallenge("B", ActionB, InputsB)
ChallengeNoKey == NewChallenge("Bnokey", ActionB, InputsB)

Plain(doc) == Some(NewBytes(doc, ""))

NavOutcomes ==
    { Outcome("timeout", Nil, "timeout"),
      Outcome("error", Nil, "connection refused"),
      Outcome("error", Nil, "Service Unavailable"),
      Outcome("ok", Some(NewResponse(200, "nginx", CtHtml, "", Plain(PageDoc), FALSE)), ""),
      Outcome("ok", Some(NewResponse(200, "nginx", CtHtml, "", Plain(RefreshDoc), FALSE)), ""),
      Outcome("ok", Some(NewResponse(200, "nginx", CtHtml, "gzip", Plain(PageDoc), FALSE)), ""),
      Outcome("ok", Some(NewResponse(403, "cloudflare", CtHtml, "", Plain(RefreshDoc), FALSE)), ""),
      Outcome("ok", Some(NewResponse(503, "cloudflare", CtHtml, "", Plain(ChallengeB), FALSE)), ""),
      Outcome("ok", Some(NewResponse(503, "cloudflare-nginx", CtHtml, "", Plain(ChallengeA), FALSE)), ""),
      Outcome("ok", Some(NewResponse(503, "cloudflare", CtHtml, "", Plain(ChallengeNoKey), FALSE)), ""),
      Outcome("ok", Some(NewResponse(503, "nginx", CtHtml, "", Plain(ChallengeB), FALSE)), "") }

MaxReloadsInputs == {-1, 0, 1, 2}

(* What a challenged origin may answer.  Every challenge sets the proxy's  *)
(* cookie, as the test server does                                         *)
CfCookie == "__cfduid=d393e5efb2f6388ade72b3f1e0bc90bda1584672737"

Challenge(server, doc) ==
    [NewResponse(503, server, CtHtml, "", Plain(doc), FALSE) EXCEPT !.SetCookie = CfCookie]

(* a challenge page without any marked script, and one whose script the    *)
(* engine cannot run                                                       *)
ChallengeNoScript == NewChallenge("none", << >>, InputsA)
ChallengeGarbled == NewChallenge("Abad", << >>, InputsA)

SolveOutcomes ==
    { Outcome("ok", Some(NewResponse(200, "nginx", CtHtml, "", Plain(PageDoc), FALSE)), ""),
      Outcome("ok", Some(Challenge("cloudflare-nginx", ChallengeA)), ""),
      Outcome("ok", Some(Challenge("cloudflare", ChallengeB)), ""),
      Outcome("ok", Some(Challenge("cloudflare", ChallengeNoKey)), ""),
      Outcome("ok", Some(Challenge("cloudflare", ChallengeNoScript)), ""),
      Outcome("ok", Some(Challenge("cloudflare-nginx", ChallengeGarbled)), "") }

SessionCookie == "session=1"

(* An ordinary origin that answers after 0, 1, 9, 10 or MaxHops redirects   *)
MaxHops == 11

HopInputs == {0, 1, MaxVia - 1, MaxVia, MaxHops}

OkPage == Outcome("ok", Some(NewResponse(200, "nginx", CtHtml, "", Plain(PageDoc), FALSE)), "")

HeaderInputs == {<<"X-Token", "t1">>, <<"Referer", "http://pinned/">>}

(* What an origin may answer to show the decode steps: a page in UTF-8 or  *)
(* GBK or an empty body, under every content encoding and content type,    *)
(* with status 200 or 403; and bodies that are not what their content      *)
(* encoding says                                                           *)
Pack(bytes, enc) ==
    IF enc \in {"gzip", "deflate", "br"} THEN [bytes EXCEPT !.packing = enc] ELSE bytes

DecodeTypes == {CtHtml, CtGBK, CtGbkLower, CtPlain, CtJson, CtMp4}

DecodeEncodings == {"", "gzip", "deflate", "br", "identity"}

DecodeBodies == {NewBytes(PageDoc, ""), InCharset(NewBytes(PageDoc, ""), Gbk), NilBytes}

DecodeOutcomes ==
    {Outcome("ok", Some(NewResponse(200, "nginx", ct, enc, Some(Pack(b, enc)), FALSE)), "") :
         ct \in DecodeTypes, enc \in DecodeEncodings, b \in DecodeBodies}
    \cup
    {Outcome("ok", Some(NewResponse(403, "nginx", ct, enc, Some(Pack(b, enc)), FALSE)), "") :
         ct \in {CtHtml, CtGBK, CtJson}, enc \in {"", "gzip", "br"},
         b \in DecodeBodies \ {NilBytes}}
    \cup
    {Outcome("ok", Some(NewResponse(st, "nginx", CtHtml, enc, Plain(PageDoc), FALSE)), "") :
         st \in {200, 403}, enc \in {"gzip", "deflate", "br"}}

FixerInputs == {"text/html", "text/plain"}

ConverterInputs == {"application/json", "video/mp4"}

(* What an origin of self-refreshing pages may answer: the refreshing page *)
(* as HTML, without a content type and as plain text, a page that does not  *)
(* refresh, a refreshing 403, and no answer at all                          *)
RefreshOutcomes ==
    { Outcome("ok", Some(NewResponse(200, "nginx", CtHtml, "", Plain(RefreshDoc), FALSE)), ""),
      Outcome("ok", Some(NewResponse(200, "nginx", "", "", Plain(RefreshDoc), FALSE)), ""),
      Outcome("ok", Some(NewResponse(200, "nginx", CtPlain, "", Plain(RefreshDoc), FALSE)), ""),
      Outcome("ok", Some(NewResponse(200, "nginx", CtHtml, "", Plain(PageDoc), FALSE)), ""),
      Outcome("ok", Some(NewResponse(403, "nginx", CtHtml, "", Plain(RefreshDoc), FALSE)), ""),
      Outcome("timeout", Nil, "timeout"),
      Outcome("error", Nil, "connection refused") }

(* What an origin may answer to a session that also fetches in the         *)
(* background: to a navigation or a reload a page that sets a cookie, a     *)
(* refreshing page, or nothing; to a                                        *)
(* background fetch a page, a refreshing page, a compressed page, a 403, or *)
(* nothing                                                                  *)
SyncOutcomes ==
    { Outcome("ok", Some([NewResponse(200, "nginx", CtHtml, "", Plain(PageDoc), FALSE)
                             EXCEPT !.SetCookie = SessionCookie]), ""),
      Outcome("ok", Some(NewResponse(200, "nginx", CtHtml, "", Plain(RefreshDoc), FALSE)), ""),
      Outcome("timeout", Nil, "timeout") }

AsyncOutcomes ==
    { Outcome("ok", Some(NewResponse(200, "nginx", CtHtml, "", Plain(PageDoc), FALSE)), ""),
      Outcome("ok", Some(NewResponse(200, "nginx", CtHtml, "", Plain(RefreshDoc), FALSE)), ""),
      Outcome("ok", Some(NewResponse(200, "nginx", CtHtml, "gzip",
                                     Some(Pack(NewBytes(PageDoc, ""), "gzip")), FALSE)), ""),
      Outcome("ok", Some(NewResponse(403, "nginx", CtHtml, "", Plain(PageDoc), FALSE)), ""),
      Outcome("error", Nil, "connection refused") }

TimeoutInputs == {30}

(* names and documents for the async store *)
StoreNames == {"x", "y"}

StoreDocs == {Some(PageDoc), Some(RefreshDoc)}

(* session headers of a user who authenticates, and short redirect chains  *)
(* that stay on the host or leave it                                       *)
AuthHeaderInputs ==
    {<<"Authorization", "Basic c3VyZg==">>, <<"Referer", "http://pinned/">>}

RedirectOutcomes ==
    {Redirected(n, OkPage) : n \in 0..2} \cup
    {CrossHost(Redirected(n, OkPage)) : n \in 1..2}

----------------------------------------------------------------------------
(* The session after surf.NewBrowser() *)

Init ==
    /\ states = << >>
    /\ Capacity = 0
    /\ state = EmptyState
    /\ body = NilBytes
    /\ headers = NoHeaders
    /\ attributes = [SendReferer |-> TRUE, MetaRefreshHandling |-> TRUE,
                     FollowRedirects |-> TRUE]
    /\ reloadCounter = 0
    /\ maxReloads = 0
    /\ fixers = << >>
    /\ converters = {}
    /\ stack = << >>
    /\ lastOp = "NewBrowser"
    /\ ret = ""
    /\ popped = Nil
    /\ backOk = FALSE
    /\ pushed = << >>
    /\ att = NoAttempt
    /\ trips = 0
    /\ solves = 0
    /\ fuel = 0
    /\ cookies = [h \in Hosts |-> ""]
    /\ nav0 = NoHeaders
    /\ installs = 0
    /\ lastRef = Nil
    /\ client = [Jar |-> Some("cookiejar.Jar"), Transport |-> Some("http.Transport{}"),
                 Timeout |-> ClearedTimeout]
    /\ doms = NoDoms
    /\ sets = << >>
    /\ got = [name |-> "", val |-> Nil]
    /\ procs = [q \in Callers |-> Idle]
    /\ locks = [his |-> Nil, store |-> Nil]
    /\ form = NoForm
    /\ shadow = [states |-> << >>, Capacity |-> 0, doms |-> NoDoms, pushes |-> 0]

(* A history whose capacity was fixed once, before the first Push *)
InitPush ==
    \E c \in 0..MaxCap :
        /\ Capacity = c
        /\ states = << >>
        /\ state = EmptyState
        /\ body = NilBytes
        /\ headers = NoHeaders
        /\ attributes = [SendReferer |-> TRUE, MetaRefreshHandling |-> TRUE,
                         FollowRedirects |-> TRUE]
        /\ reloadCounter = 0
        /\ maxReloads = 0
        /\ fixers = << >>
        /\ converters = {}
        /\ stack = << >>
        /\ lastOp = "SetCapacity"
        /\ ret = ""
        /\ popped = Nil
        /\ backOk = FALSE
        /\ pushed = << >>
        /\ att = NoAttempt
        /\ trips = 0
        /\ solves = 0
        /\ fuel = 0
        /\ cookies = [h \in Hosts |-> ""]
        /\ nav0 = NoHeaders
        /\ installs = 0
        /\ lastRef = Nil
        /\ client = [Jar |-> Some("cookiejar.Jar"), Transport |-> Some("http.Transport{}"),
                     Timeout |-> ClearedTimeout]
        /\ doms = NoDoms
        /\ sets = << >>
        /\ got = [name |-> "", val |-> Nil]
        /\ procs = [q \in Callers |-> Idle]
        /\ locks = [his |-> Nil, store |-> Nil]
        /\ form = NoForm
        /\ shadow = [states |-> << >>, Capacity |-> c, doms |-> NoDoms, pushes |-> 0]

NextPush == \E p \in SampleStates : Push(p)

SpecPush == InitPush /\ [][NextPush]_vars

NextHistory ==
    \/ \E c \in 0..MaxCap : SetCapacity(c)
    \/ \E p \in SampleStates : Push(p)
    \/ Pop

SpecHistory == Init /\ [][NextHistory]_vars

Next ==
    \/ \E c \in {0, 2} : SetHistoryCapacity(c)
    \/ \E m \in MaxReloadsInputs : SetMaxReloads(m)
    \/ \E u \in {UrlFeed, UrlChk} : Open(u)
    \/ \E o \in NavOutcomes : httpRequest(o)
    \/ Return
    \/ Back

Spec == Init /\ [][Next]_vars

(* A session in front of a challenging proxy *)
NextSolve ==
    \/ AddRequestHeader("Cookie", SessionCookie)
    \/ \E u \in {UrlFeed, UrlSite} : Open(u)
    \/ \E o \in SolveOutcomes : httpRequest(o)
    \/ Return

SpecSolve == Init /\ [][NextSolve]_vars

(* A session configured by its user, navigating an origin that redirects *)
NextNav ==
    \/ \E a \in {"SendReferer", "FollowRedirects"}, v \in BOOLEAN : SetAttribute(a, v)
    \/ \E h \in HeaderInputs : AddRequestHeader(h[1], h[2])
    \/ SetHistoryCapacity(2)
    \/ \E u \in {UrlFeed, UrlSite} : Open(u)
    \/ \E ref \in {Nil, Some(UrlSite)} : Post(UrlFeed, FormContentType, ref)
    \/ \E n \in HopInputs : httpRequest(Redirected(n, OkPage))
    \/ Return

SpecNav == Init /\ [][NextNav]_vars

(* A session with content fixers and converters, reading what an origin   *)
(* sends                                                                   *)
NextDecode ==
    \/ \E m \in FixerInputs : SetContentFixer(m)
    \/ \E m \in ConverterInputs : SetConverter(m)
    \/ \E m \in ConverterInputs : ClearConverter(m)
    \/ Open(UrlFeed)
    \/ \E o \in DecodeOutcomes : httpRequest(o)
    \/ Return

SpecDecode == Init /\ [][NextDecode]_vars

(* A session that sets its reload limit and meta-refresh handling and      *)
(* opens self-refreshing pages                                             *)
NextRefresh ==
    \/ \E m \in 0..2 : SetMaxReloads(m)
    \/ \E v \in BOOLEAN : SetAttribute("MetaRefreshHandling", v)
    \/ Open(UrlFeed)
    \/ \E o \in RefreshOutcomes : httpRequest(o)
    \/ Return

SpecRefresh == Init /\ [][NextRefresh]_vars

(* The async store used by one caller *)
NextStore ==
    \/ \E n \in StoreNames, d \in StoreDocs : Set(n, d)
    \/ \E n \in StoreNames : Get(n)

SpecStore == Init /\ [][NextStore]_vars

(* A session that configures its client and fetches both ways *)
NextAsync ==
    \/ SetHistoryCapacity(2)
    \/ SetMaxReloads(1)
    \/ \E t \in TimeoutInputs : SetTimeout(t)
    \/ SetTransport("proxy")
    \/ SetCookieJar("jar2")
    \/ Open(UrlFeed)
    \/ \E n \in StoreNames : OpenAsync(UrlFeed, n)
    \/ \E o \in SyncOutcomes : httpRequest(o)
    \/ \E o \in AsyncOutcomes : httpAsyncRequest(o)
    \/ Return

SpecAsync == Init /\ [][NextAsync]_vars

(* Callers that share one history and one store.  A caller past Lock goes   *)
(* on running, and a caller waiting in Lock gets the mutex when it is freed *)
(* again and again (sync.Mutex hands it to a waiter that has starved).      *)
CallInputs ==
    {<<"Push", <<p>> >> : p \in {NewHistoryState(Some(NewRequest("GET", u, NoHeaders)), Nil, Nil) :
                                     u \in {UrlFeed, UrlChk}}}
    \cup {<<"Pop", << >> >>, <<"Top", << >> >>, <<"Len", << >> >>,
          <<"SetCapacity", <<1>> >>, <<"SetCapacity", <<2>> >>,
          <<"Set", <<"x", Some(PageDoc)>> >>,
          <<"Get", <<"x">> >>}

NextConc ==
    \/ \E c \in Callers, i \in CallInputs : Invoke(c, i[1], i[2])
    \/ \E c \in Callers : Lock(c)
    \/ \E c \in Callers : HistoryStep(c)
    \/ \E c \in Callers : StoreStep(c)
    \/ \E c \in Callers : Unlock(c)

SpecConc ==
    /\ Init
    /\ [][NextConc]_vars
    /\ \A c \in Callers :
           /\ SF_vars(Lock(c))
           /\ WF_vars(HistoryStep(c))
           /\ WF_vars(StoreStep(c))
           /\ WF_vars(Unlock(c))

(* Callers that share one session: navigations fill the history while no  *)
(* caller is inside a call, then the callers call Back, or Pop on the      *)
(* history itself, at the same time.                                       *)
NextBack ==
    \/ SetHistoryCapacity(2)
    \/ ((\A c \in Callers : procs[c].pc = "idle") /\ \E u \in {UrlFeed, UrlSite} : Open(u))
    \/ httpRequest(OkPage)
    \/ Return
    \/ \E c \in Callers : BackLen(c)
    \/ \E c \in Callers : BackPop(c)
    \/ \E c \in Callers : BackReturn(c)
    \/ (stack = << >> /\ \E c \in Callers : Invoke(c, "Pop", << >>))
    \/ \E c \in Callers : Lock(c)
    \/ \E c \in Callers : HistoryStep(c)
    \/ \E c \in Callers : Unlock(c)

SpecBack == Init /\ [][NextBack]_vars

(* A session under any history capacity: navigations that are answered  *)
(* or time out, and Back.                                                 *)
CapacityInputs == {-1, 0, 1, 2}

NextCapacity ==
    \/ \E c \in CapacityInputs : SetHistoryCapacity(c)
    \/ \E u \in {UrlFeed, UrlSite} : Open(u)
    \/ \E o \in SyncOutcomes : httpRequest(o)
    \/ Return
    \/ Back

SpecCapacity == Init /\ [][NextCapacity]_vars

(* What an origin may answer to a session that reloads: a page, a page    *)
(* behind a bad gzip header, a refused connection, a timeout               *)
ReloadOutcomes ==
    { Outcome("ok", Some(NewResponse(200, "nginx", CtHtml, "", Plain(PageDoc), FALSE)), ""),
      Outcome("ok", Some(NewResponse(200, "nginx", CtHtml, "gzip", Plain(PageDoc), FALSE)), ""),
      Outcome("error", Nil, "connection refused"),
      Outcome("timeout", Nil, "timeout") }

(* A session that navigates, reloads and goes back *)
NextReload ==
    \/ SetHistoryCapacity(2)
    \/ \E u \in {UrlFeed, UrlChk} : Open(u)
    \/ Reload
    \/ \E o \in ReloadOutcomes : httpRequest(o)
    \/ Return
    \/ Back

SpecReload == Init /\ [][NextReload]_vars

(* Forms of a page: a search form with a repeated field name, repeated     *)
(* checkboxes and two buttons; a form without buttons; a multipart form     *)
(* whose first button has an empty name                                    *)
FormInputs ==
    { NewFormOf("GET", "", UrlAction,
                <<Field("q", ""), Field("lang", "en"), Field("q", "x")>>,
                <<Checkbox("opt", "a", FALSE), Checkbox("opt", "b", TRUE),
                  Checkbox("opt", "a", TRUE)>>,
                <<Button("go", "Go"), Button("cancel", "No"), Button("go", "Again")>>),
      NewFormOf("POST", "", UrlFeed,
                <<Field("q", "")>>, <<Checkbox("q", "a", FALSE)>>, << >>),
      NewFormOf("POST", MultipartContentType, UrlFeed,
                << >>, <<Checkbox("opt", "a", FALSE)>>,
                <<Button("", "Send"), Button("go", "Go")>>) }

InputNames == {"q", "opt", "zz"}

InputValues == {"a", "new"}

ClickInputs == {"go", "cancel", "nope"}

(* A session that fills in and submits a form *)
NextForm ==
    \/ \E f \in FormInputs : NewForm(f)
    \/ \E n \in InputNames, v \in InputValues : Input(n, v)
    \/ Submit
    \/ \E b \in ClickInputs : Click(b)
    \/ httpRequest(OkPage)
    \/ Return

SpecForm == Init /\ [][NextForm]_vars

(* One navigation, under any reload limit, to an origin that answers every *)
(* request with a solvable challenge of the current variant.  A request     *)
(* that was made is answered, and a call that can return does.              *)
LimitInputs == {-2, -1, 0, 1, 2, 3}

ChallengedOutcomes ==
    { Outcome("ok", Some(Challenge(server, ChallengeB)), "") :
        server \in {"cloudflare-nginx", "cloudflare"} }

NextChallenged ==
    \/ \E m \in LimitInputs : SetMaxReloads(m)
    \/ (fuel = 0 /\ \E u \in {UrlFeed, UrlSite} : Open(u))
    \/ \E o \in ChallengedOutcomes : httpRequest(o)
    \/ Return

SpecChallenged ==
    /\ Init
    /\ [][NextChallenged]_vars
    /\ WF_vars(\E o \in ChallengedOutcomes : httpRequest(o))
    /\ WF_vars(Return)

(* A session whose requests are redirected, on the host and across hosts *)
NextRedirect ==
    \/ \E h \in AuthHeaderInputs : AddRequestHeader(h[1], h[2])
    \/ \E u \in {UrlFeed, UrlSite} : Open(u)
    \/ \E o \in RedirectOutcomes : httpRequest(o)
    \/ Return

SpecRedirect == Init /\ [][NextRedirect]_vars

----------------------------------------------------------------------------
(* Claims about the history *)

LastN(s, n) == SubSeq(s, Len(s) - n + 1, Len(s))

\* C1: with the capacity fixed at C, after N pushes and no Pop the history holds
\* exactly the min(N, C) most recently pushed States, in push order; with C = 0
\* it stays empty.
C1_PushKeepsMostRecent ==
    /\ Len(states) = Min(Len(pushed), Capacity)
    /\ states = LastN(pushed, Min(Len(pushed), Capacity))
    /\ (Capacity = 0 => states = << >>)

\* C1 witness: more pushes than the capacity holds, so the oldest was evicted
C1_Witness ==
    /\ Capacity = 2
    /\ Len(pushed) = 4
    /\ pushed[1] # pushed[3]
    /\ states = <<pushed[3], pushed[4]>>

\* C2: the history never holds more entries than its configured capacity
C2_LenWithinCapacity == Len(states) <= Capacity

\* C3: Pop returns the most recent entry and removes it only when another entry
\* remains; on an empty history it returns nil and changes nothing; Pop never
\* empties a non-empty history.
C3_PopKeepsLast ==
    [][lastOp' = "Pop" =>
         /\ (Len(states) >= 2 =>
                /\ popped' = Some(states[Len(states)])
                /\ states' = SubSeq(states, 1, Len(states) - 1))
         /\ (Len(states) = 1 => popped' = Some(states[1]) /\ states' = states)
         /\ (Len(states) = 0 => popped' = Nil /\ states' = states)
         /\ (Len(states) >= 1 => Len(states') >= 1)]_vars

\* C3 witness: a Pop has returned an entry and left exactly one behind
C3_Witness ==
    /\ lastOp = "Pop"
    /\ Len(pushed) >= 2
    /\ Len(states) = 1
    /\ states[1] = pushed[Len(pushed) - 1]
    /\ popped = Some(pushed[Len(pushed)])
    /\ popped # Some(states[1])

----------------------------------------------------------------------------
(* Claims about the request engine *)

(* the innermost httpRequest call has returned or is about to *)
Returning == stack # << >> /\ Head(stack).pc = "ret"

(* the frame of the httpRequest call that has just run httpRequestComplete:  *)
(* the innermost one, or the one below it when postSend has called Reload   *)
Completed == IF Head(stack).pc = "ret" THEN Head(stack) ELSE stack[2]

(* a top-level navigation has returned to its caller *)
NavDone == stack = << >> /\ lastOp = "Return"

(* the retry budget as the specification words it *)
Budget(max) == IF max > 0 THEN max ELSE DefaultMaxReloads

SolverEntered == att.reached /\ att.outcome \in {"deadloop", "unsolved", "followup"}

\* C4: Back returns true exactly when the history held more than one entry; then
\* the current State becomes the entry that was on top and the history loses
\* exactly that entry; otherwise neither the current State nor the history changes.
C4_BackIffLenAboveOne ==
    [][lastOp' = "Back" =>
         /\ (backOk' <=> Len(states) > 1)
         /\ (backOk' =>
                /\ state' = states[Len(states)]
                /\ states' = SubSeq(states, 1, Len(states) - 1))
         /\ (~backOk' => state' = state /\ states' = states)]_vars

\* C4 witness: a Back that succeeded and installed a State of an earlier navigation
C4_Witness ==
    /\ lastOp = "Back"
    /\ backOk
    /\ Len(states) = 1
    /\ state.Request # Nil

\* C5: every round trip that does not enter the challenge path calls
\* history.Push exactly once, with the previously current State, and installs
\* one new current State for its request, whatever its outcome.
C5_OneStatePerAttempt ==
    [][(lastOp' = "httpRequest" /\ ~att'.chal) =>
         /\ att'.pushes = 1
         /\ states' = PushStates(states, Capacity, state)
         /\ state'.Request = Some(Head(stack).req)]_vars

\* C6: after a failed round trip (timeout or any other network failure) the
\* current State has no response and the placeholder document, and httpRequest
\* returns the transport's original, non-nil error.
C6_TransportErrorSurfaced ==
    (lastOp = "httpRequest" /\ att.outcome \in {"timeout", "error"}) =>
        /\ state.Response = Nil
        /\ state.Dom = Some(Placeholder.doc)
        /\ Returning
        /\ Head(stack).err = att.err
        /\ att.err # ""

\* C7: the solver is entered only for a 503 response with one of the two proxy
\* signatures and only while the reload counter is below the budget (the
\* configured max when > 0, otherwise 3); at the budget httpRequest returns the
\* maximum-retries error; one navigation makes at most budget solve attempts.
C7_SolverWithinBudget ==
    /\ (SolverEntered =>
           /\ att.resp[1].StatusCode = 503
           /\ att.resp[1].Server \in {"cloudflare-nginx", "cloudflare"}
           /\ att.ctr0 < Budget(att.max0))
    /\ ((lastOp = "httpRequest" /\ att.chal /\ att.ctr0 >= Budget(att.max0)) =>
           /\ att.outcome = "maxretries"
           /\ Completed.err = "maxretries")
    /\ solves <= Budget(maxReloads)

\* C8: with max reloads unset, a navigation whose every response is a challenge
\* returns the maximum-retries error to its caller at the fourth response,
\* after exactly three solve attempts.
C8_FourthChallengeReturnsError ==
    (NavDone /\ maxReloads = 0 /\ trips = 4 /\ att.outcome = "maxretries") =>
        /\ solves = 3
        /\ ret = "maxretries"

\* C9: the reload counter goes back to 0 only when a request completes whose
\* response did not enter the challenge path; a request that ends with an
\* unsolved challenge or an exhausted budget leaves the counter as it is.
C9_ResetOnlyOffChallengePath ==
    [][(reloadCounter # 0 /\ reloadCounter' = 0) =>
         \/ (lastOp' = "httpRequest" /\ ~att'.chal)
         \/ /\ lastOp' = "Return"
            /\ Len(stack) >= 2
            /\ stack[2].pc = "postSend"
            /\ (stack[2].resp = Nil \/ ~IsChallenge(stack[2].resp[1]))]_vars

\* C10: a challenge response to a request whose URL contains chk_jschl makes
\* httpRequest return an error at once: the counter is not incremented and no
\* further round trip is started, post-processing included.
C10_DeadLoopFailsAtOnce ==
    (lastOp = "httpRequest" /\ att.outcome = "deadloop") =>
        /\ Returning
        /\ Head(stack).err # ""
        /\ reloadCounter <= att.ctr0

----------------------------------------------------------------------------
(* Claims about the challenge solver *)

(* the document solveCF parsed out of the last response *)
SolvedDoc == Parse(SolveRead(att.resp[1]).bytes)

(* the last round trip ended inside solveCF with a follow-up waiting to go *)
FollowUpPending ==
    /\ lastOp = "httpRequest"
    /\ att.outcome = "followup"

\* C11: when the challenge page's script matches neither variant, or the page
\* has no matching script at all, the solver issues no follow-up request and
\* httpRequest returns an error.
C11_UnsupportedScriptFails ==
    (/\ lastOp = "httpRequest"
     /\ att.outcome \in {"unsolved", "followup"}
     /\ SolvedDoc.script \in {"none", "Abad"}) =>
        /\ att.outcome = "unsolved"
        /\ Returning
        /\ Head(stack).err # ""

\* C12: a navigation answered by a 503 challenge that is solved, whose
\* follow-up is answered with 200, returns nil; the follow-up carried the cookie
\* the challenge response set; the current State is the follow-up's 200
\* response; the navigation installed exactly one State.
C12_SolvedChallengeInstallsFollowUp ==
    (/\ NavDone
     /\ trips = 2
     /\ solves = 1
     /\ att.outcome = "ok"
     /\ att.resp[1].StatusCode = 200) =>
        /\ ret = ""
        /\ att.cookie = CfCookie
        /\ state.Request[1].Header["Cookie"] \in
               {CfCookie, SessionCookie \o "; " \o CfCookie}
        /\ state.Request[1].URL = att.url
        /\ state.Response = att.resp
        /\ StatusCode(state) = 200
        /\ installs = 1

\* C12 witness: the current-variant challenge was solved by a POST that carried
\* the cookie and was answered with 200
C12_Witness ==
    /\ NavDone
    /\ trips = 2
    /\ solves = 1
    /\ att.outcome = "ok"
    /\ state.Request[1].Method = "POST"
    /\ att.cookie = CfCookie
    /\ StatusCode(state) = 200
    /\ installs = 1

\* C13: the follow-up is determined by the variant: the legacy variant sends a
\* GET to /cdn-cgi/l/chk_jschl on the challenged scheme and host with query
\* fields jschl_vc, pass and jschl_answer; the current variant sends a POST to
\* the challenged scheme and host plus the form's entity-decoded action with
\* form fields jschl_vc, pass, r and jschl_answer; one solve attempt issues
\* exactly one follow-up request.
C13_FollowUpByVariant ==
    [][(lastOp' = "httpRequest" /\ att'.outcome = "followup") =>
         LET f == Head(stack')
             rurl == att'.url
             dom == Parse(SolveRead(att'.resp[1]).bytes)
         IN /\ Len(stack') = Len(stack) + 1
            /\ f.pc = "do"
            /\ stack'[2].pc \in {"solveA", "solveB"}
            /\ IF dom.script = "B"
               THEN /\ f.req.Method = "POST"
                    /\ f.req.URL = NewURL(rurl.Scheme, rurl.Host, "/feed?f&tk")
                    /\ f.req.Form = [jschl_vc |-> "vc-b", pass |-> "pass-b", r |-> "r-b",
                                     jschl_answer |-> f.req.Form["jschl_answer"]]
                    /\ f.req.Query = NoValues
               ELSE /\ f.req.Method = "GET"
                    /\ f.req.URL = NewURL(rurl.Scheme, rurl.Host, "/cdn-cgi/l/chk_jschl")
                    /\ f.req.Query = [jschl_vc |-> "vc-a", pass |-> "pass-a",
                                      jschl_answer |-> f.req.Query["jschl_answer"]]
                    /\ f.req.Form = NoValues]_vars

\* C13 witness: a legacy follow-up is waiting to go to the second site
C13_Witness ==
    /\ FollowUpPending
    /\ SolvedDoc.script = "A"
    /\ Head(stack).req.Method = "GET"
    /\ Head(stack).req.URL = NewURL("https", HostSite, PathChk)

C15_AnswerIsIntegerPlusHostLen ==
    (FollowUpPending /\ SolvedDoc.script \in {"A", "none"}) =>
        LET v == Eval(SolvedDoc.script, EvalHost(att.url.Host))[1]
        IN Head(stack).req.Query["jschl_answer"] =
               ToString(v.int + Len(EvalHost(att.url.Host)))

\* C15 (amended): in the legacy variant the submitted jschl_answer is the
\* evaluated result printed as it is, decimals included ("undefined" for an
\* undefined result); the hostname's length is not added to it.
C15_AnswerIsPrintedResult ==
    (FollowUpPending /\ SolvedDoc.script \in {"A", "none"}) =>
        LET v == Eval(SolvedDoc.script, EvalHost(att.url.Host))[1]
            answer == Head(stack).req.Query["jschl_answer"]
        IN /\ (v.undefined => answer = "undefined")
           /\ (~v.undefined /\ v.frac # "" =>
                  answer = ToString(v.int) \o "." \o v.frac)
           /\ answer # ToString(v.int + Len(EvalHost(att.url.Host)))

\* C15 witness: the legacy page's follow-up carries a result with decimals
C15_Witness ==
    /\ FollowUpPending
    /\ SolvedDoc.script = "A"
    /\ Head(stack).req.Query["jschl_answer"] = "168.5181599891"
    /\ Len(EvalHost(att.url.Host)) = 12

\* C16: after a request that ends with an unsolved challenge or an exhausted
\* retry budget, the current State's response is the 503 challenge response and
\* its document is parsed from that response's body.
C16_StateReflectsChallenge ==
    (lastOp = "httpRequest" /\ att.outcome \in {"unsolved", "maxretries", "deadloop"}) =>
        /\ state.Response = att.resp
        /\ StatusCode(state) = 503
        /\ state.Dom = Some(SolvedDoc)

\* C17: the headers added for challenge solving go only with the follow-up
\* requests: once a navigation has returned, the session header set is what it
\* was when the navigation started, and a navigation started later carries
\* none of those headers.
C17_SolverHeadersNotKept ==
    /\ (NavDone => headers = nav0)
    /\ (lastOp = "Open" =>
           (DOMAIN Head(stack).req.Header) \cap
               {"Origin", "Accept", "Accept-Language", "Accept-Encoding", "Connection",
                "Dnt", "Upgrade-Insecure-Requests", "Referer"} = {})

----------------------------------------------------------------------------
(* Claims about building requests and following redirects *)

\* C18: building and sending a request leaves the session header set as it
\* was; the request gets a copy of the session headers with User-Agent set;
\* Referer is set from the supplied referrer exactly when send-referer is on and
\* a referrer was supplied; apart from the session headers a request carries
\* only its own User-Agent, Referer and (on POST) Content-Type.
C18_RequestHeadersAreACopy ==
    [][/\ (lastOp' \in {"Open", "Post"} =>
             LET r == Head(stack').req
                 own == {"User-Agent", "Referer", "Content-Type"}
                 referred == attributes.SendReferer /\ lastRef' # Nil
             IN /\ headers' = headers
                /\ r.Header["User-Agent"] = "surf"
                /\ \A k \in (DOMAIN headers) \ own :
                       k \in DOMAIN r.Header /\ r.Header[k] = headers[k]
                /\ IF referred
                   THEN r.Header["Referer"] = UrlString(lastRef'[1])
                   ELSE IF "Referer" \in DOMAIN headers
                   THEN r.Header["Referer"] = headers["Referer"]
                   ELSE "Referer" \notin DOMAIN r.Header
                /\ IF r.Method = "POST"
                   THEN r.Header["Content-Type"] = FormContentType
                   ELSE "Content-Type" \notin DOMAIN r.Header
                /\ (DOMAIN r.Header) \subseteq
                       (DOMAIN headers) \cup {"User-Agent"}
                           \cup (IF referred THEN {"Referer"} ELSE {})
                           \cup (IF r.Method = "POST" THEN {"Content-Type"} ELSE {}))
       /\ ((lastOp' = "httpRequest" /\ ~att'.chal) => headers' = headers)]_vars

\* C18 witness: after an earlier round trip, a POST with a referrer has been
\* built on a session with a header of its own and no Referer
C18_Witness ==
    /\ lastOp = "Post"
    /\ fuel >= 1
    /\ attributes.SendReferer
    /\ lastRef = Some(UrlSite)
    /\ DOMAIN headers = {"X-Token"}
    /\ Head(stack).req.Header["Referer"] = "https://torrentz2.eu/feed"
    /\ Head(stack).req.Header["X-Token"] = "t1"

\* C19: with follow-redirects off, the first redirect makes the navigation fail
\* with the redirects-disabled error, returned to the caller; the redirect is
\* not followed and neither the current State nor the History changes.
C19_RedirectsDisabledAborts ==
    [][(lastOp' = "httpRequest" /\ ~attributes.FollowRedirects /\ att'.hops >= 1) =>
         /\ att'.outcome = "refused"
         /\ Head(stack').pc = "ret"
         /\ Head(stack').err = RedirectsDisabled
         /\ state' = state
         /\ states' = states]_vars

\* C20: with follow-redirects on, a chain of n redirects is followed to its end
\* exactly when n <= 10; a longer chain fails with too many redirects.
C20_TenHopsFollowed ==
    (lastOp = "httpRequest" /\ attributes.FollowRedirects /\ att.reached) =>
        /\ (att.hops <= 10 => att.outcome = "ok" /\ Head(stack).err = "")
        /\ (att.hops > 10 =>
               att.outcome = "refused" /\ Head(stack).err = TooManyRedirects)

\* C21: on every accepted redirect hop, each header of the original request
\* that the hop's request lacks is copied onto it with the original's value, a
\* header the hop's request already has keeps its own value, and the original
\* request's headers stay as they were sent.
C21_RedirectInheritsHeaders ==
    [][(lastOp' = "httpRequest" /\ Len(att'.pres) >= 1) =>
         LET sent == AddCookie(Head(stack).req, cookies[Head(stack).req.URL.Host])
             orig == att'.reqs[1].Header
         IN /\ att'.reqs[1] = sent
            /\ state'.Request = Some(sent)
            /\ \A i \in 1..Len(att'.pres) :
                   LET pre == att'.pres[i].Header
                       post == att'.reqs[i + 1].Header
                   IN /\ DOMAIN post = (DOMAIN pre) \cup (DOMAIN orig)
                      /\ \A k \in DOMAIN pre : post[k] = pre[k]
                      /\ \A k \in (DOMAIN orig) \ (DOMAIN pre) : post[k] = orig[k]]_vars

\* C21 witness: a hop to another host was built without the original's
\* Authorization and with a Referer of its own; it went out with the original's
\* Authorization and its own Referer
C21_Witness ==
    /\ lastOp = "httpRequest"
    /\ att.outcome = "ok"
    /\ Len(att.pres) = 2
    /\ DOMAIN att.reqs[1].Header = {"Authorization", "Referer", "User-Agent"}
    /\ att.reqs[1].Header["Referer"] = "http://pinned/"
    /\ att.reqs[2].URL.Host # att.reqs[1].URL.Host
    /\ "Authorization" \notin DOMAIN att.pres[1].Header
    /\ att.reqs[2].Header["Authorization"] = att.reqs[1].Header["Authorization"]
    /\ att.reqs[2].Header["Referer"] = UrlString(att.reqs[1].URL)

----------------------------------------------------------------------------
(* Claims about decoding a response body *)

(* the last round trip read a response that is neither a challenge nor a   *)
(* 403 and whose body is what its content encoding says                     *)
ReadPage ==
    /\ lastOp = "httpRequest"
    /\ att.outcome = "ok"
    /\ att.resp[1].Body[1].packing =
           Pack(att.resp[1].Body[1], att.resp[1].ContentEncoding).packing

(* the body of the last response as it came over the wire, and decompressed *)
Wire == att.resp[1].Body[1]

Unpacked == [Wire EXCEPT !.packing = ""]

(* the type/subtype of a content type *)
TypeSubtype(contentType) ==
    IF contentType \in {CtGBK, CtGbkLower} THEN "text/html"
    ELSE IF contentType = CtJson THEN "application/json"
    ELSE contentType

(* the caller has registered the content type's MIME type as charset-exempt *)
Exempt(contentType) ==
    \E i \in 1..Len(fixers) : fixers[i] = TypeSubtype(contentType)

\* C22: for every response outside the challenge path whose Content-Encoding is
\* gzip, deflate or br, the bytes the State's document is parsed from have been
\* decompressed, whichever charset branch is taken; any other content encoding
\* passes the bytes through unchanged.
C22_ParsedBytesDecompressed ==
    (ReadPage /\ TypeSubtype(att.resp[1].ContentType) \notin converters) =>
        /\ body.packing = ""
        /\ body.doc \in {Unpacked.doc, Mojibake(Unpacked.doc)}
        /\ state.Dom \in {Some(Unpacked.doc), Some(Mojibake(Unpacked.doc))}
        /\ (att.resp[1].ContentEncoding \notin {"gzip", "deflate", "br"} =>
               body.doc \in {Wire.doc, Mojibake(Wire.doc)})

\* C23: for an uncompressed response that is neither a 403 nor a challenge, a
\* Content-Type equal to the legacy marker is decoded with the legacy decoder
\* even when text/html is registered as charset-exempt; otherwise a registered
\* charset-exempt MIME type leaves the bytes as they are; otherwise the bytes
\* are transcoded to UTF-8, and when that cannot start the raw bytes are used
\* and no error is returned.
C23_CharsetPriority ==
    (/\ ReadPage
     /\ att.resp[1].ContentEncoding \in {"", "identity"}
     /\ TypeSubtype(att.resp[1].ContentType) \notin converters) =>
        LET ct == att.resp[1].ContentType
        IN /\ Returning /\ Head(stack).err = ""
           /\ IF ct = CtGBK
              THEN /\ body.charset = Utf8
                   /\ (Wire.charset = Gbk => state.Dom = Some(Wire.doc))
                   /\ (Wire.charset = Utf8 => state.Dom = Some(Mojibake(Wire.doc)))
              ELSE IF Exempt(ct)
              THEN /\ body = Wire
                   /\ (Wire.charset = Gbk => state.Dom = Some(Mojibake(Wire.doc)))
              ELSE IF Wire = NilBytes
              THEN body = Wire
              ELSE /\ body.charset = Utf8
                   /\ (Wire.charset = Gbk /\ ct # CtJson => state.Dom = Some(Wire.doc))
                   /\ (Wire.charset = Utf8 /\ ct # CtGbkLower =>
                          state.Dom = Some(Wire.doc))

\* C23 witness: a GBK page under the legacy marker was decoded although
\* text/html is registered as charset-exempt
C23_Witness ==
    /\ ReadPage
    /\ att.resp[1].ContentType = CtGBK
    /\ att.resp[1].ContentEncoding = ""
    /\ Exempt(CtGBK)
    /\ Wire.charset = Gbk
    /\ Wire.doc.text = "page"
    /\ body.charset = Utf8
    /\ state.Dom = Some(Wire.doc)

C25_ConverterRunsForItsType ==
    ReadPage =>
        LET ct == att.resp[1].ContentType
        IN IF TypeSubtype(ct) \in converters
           THEN body = Converter(CharsetStep(att.resp[1]).bytes, ct, UrlString(att.url))
           ELSE body = CharsetStep(att.resp[1]).bytes

----------------------------------------------------------------------------
(* Claims about meta-refresh *)

(* the response is HTML or has no content type, and its page asks for a    *)
(* refresh                                                                 *)
RefreshingHtml(resp) ==
    /\ resp # Nil
    /\ resp[1].ContentType \in {"", "text/html"}
    /\ resp[1].Body[1].doc.meta

\* C26: with meta-refresh handling on and a reload limit M >= 0, a navigation
\* whose every response is HTML (or without content type) with a refresh meta
\* tag ends after exactly M automatic reloads, each adding one to the reload
\* counter (none when M is 0); no automatic reload is made when the attribute
\* is off, the response is not HTML, or there is no response.
C26_ExactlyMaxReloads ==
    [][/\ (lastOp' = "httpRequest" =>
             LET reloads == Len(stack') = Len(stack) + 1
             IN /\ (reloads <=>
                       /\ RefreshingHtml(att'.resp)
                       /\ attributes.MetaRefreshHandling
                       /\ reloadCounter < maxReloads)
                /\ (reloads =>
                       /\ reloadCounter' = reloadCounter + 1
                       /\ Head(stack').pc = "do"
                       /\ Head(stack').req = Head(stack).req)
                /\ (~reloads => Len(stack') = Len(stack) /\ Head(stack').pc = "ret"))
       /\ ((/\ lastOp' = "Return"
            /\ stack' = << >>
            /\ RefreshingHtml(att.resp)
            /\ attributes.MetaRefreshHandling) =>
               /\ trips = maxReloads + 1
               /\ reloadCounter' = 0)]_vars

\* C26 witness: with the limit at 2 a navigation has returned after the first
\* response and two reloads, all three refreshing HTML
C26_Witness ==
    /\ NavDone
    /\ maxReloads = 2
    /\ attributes.MetaRefreshHandling
    /\ trips = 3
    /\ RefreshingHtml(att.resp)
    /\ reloadCounter = 0
    /\ ret = ""

----------------------------------------------------------------------------
(* Claims about the async store *)

(* the Sets of name completed so far, by their place in the order *)
SetsOf(name) == {i \in 1..Len(sets) : sets[i][1] = name}

Latest(idx) == CHOOSE i \in idx : \A j \in idx : j <= i

\* C27: Get(name) returns the document of the most recent Set(name, .) that
\* completed before it, whatever Sets were made on whatever names; Get of a name
\* never Set returns a non-nil empty document, and Get never adds an entry to
\* the store or changes one.
C27_GetReturnsLastSet ==
    [][lastOp' = "Get" =>
         /\ doms' = doms
         /\ got'.val # Nil
         /\ IF SetsOf(got'.name) = {}
            THEN /\ got'.val = Some(ZeroDocument)
                 /\ got'.name \notin DOMAIN doms'
            ELSE got'.val = sets[Latest(SetsOf(got'.name))][2]]_vars

\* C27 witness: after two Sets of x with different documents and a Set of y,
\* Get(x) has returned the second document of x
C27_Witness ==
    /\ lastOp = "Get"
    /\ got.name = "x"
    /\ Len(sets) = 3
    /\ sets[1] = <<"x", Some(PageDoc)>>
    /\ sets[2] = <<"x", Some(RefreshDoc)>>
    /\ sets[3][1] = "y"
    /\ got.val = Some(RefreshDoc)

----------------------------------------------------------------------------
(* Claims about the async fetch and the client *)

\* C29: the step of OpenAsync(u, name) that receives the transport's answer
\* stores a document under name (leaving the other names alone), pushes the
\* State that was current onto the history and installs a State for the
\* request holding that same document; the document is the page of a readable
\* uncompressed 200 response, and the placeholder when no response came.
C29_AsyncFetchStoresAndInstalls ==
    [][lastOp' = "httpAsyncRequest" =>
          LET name == Head(stack).name
              r == att'.resp
          IN /\ name \in DOMAIN doms'
             /\ doms'[name] # Nil
             /\ \A m \in DOMAIN doms : m # name => doms'[m] = doms[m]
             /\ state'.Dom = doms'[name]
             /\ state'.Request = Some(Head(stack).req)
             /\ state'.Response = r
             /\ IF Capacity > 0
                THEN /\ states' # << >>
                     /\ states'[Len(states')] = state
                     /\ Len(states') = Min(Len(states) + 1, Capacity)
                ELSE states' = states
             /\ r = Nil => doms'[name] = Some(Placeholder.doc)
             /\ (/\ r # Nil
                 /\ att'.err = ""
                 /\ r[1].StatusCode = 200
                 /\ r[1].Body[1].packing = "")
                => doms'[name] = Some(r[1].Body[1].doc)]_vars

\* an async fetch that failed after one that succeeded under another name
C29_Witness ==
    /\ lastOp = "httpAsyncRequest"
    /\ att.resp = Nil
    /\ state.Dom = Some(Placeholder.doc)
    /\ states # << >>
    /\ states[Len(states)].Dom = Some(PageDoc)
    /\ \E n \in DOMAIN doms, m \in DOMAIN doms :
           /\ n # m
           /\ doms[n] = state.Dom
           /\ doms[m] = Some(PageDoc)

\* C30: every round trip of the session, synchronous or async, is made by
\* the session's client as configured (jar, transport, timeout) and carries
\* the cookie that jar holds for the host.
C30_OneClientConfiguration ==
    [][lastOp' \in {"httpRequest", "httpAsyncRequest"} =>
          /\ att'.client = Some(client)
          /\ att'.cookie = cookies[att'.url.Host]]_vars

----------------------------------------------------------------------------
(* Claims about concurrent callers *)

AllIdle == \A c \in Callers : procs[c].pc = "idle"

(* every result is the one of the calls run one by one in lock order, and  *)
(* with no call in progress the contents are theirs                        *)
Linearized ==
    /\ \A c \in Callers : procs[c].pc = "ret" => procs[c].res = procs[c].want
    /\ \A c \in Callers, e \in Callers :
           (c # e /\ procs[c].pc \in {"s1", "s2", "ret"} /\ procs[e].pc \in {"s1", "s2", "ret"})
           => LockOf(procs[c].op) # LockOf(procs[e].op)
    /\ AllIdle =>
           /\ states = shadow.states
           /\ Capacity = shadow.Capacity
           /\ doms = shadow.doms
           /\ (shadow.pushes >= 0 /\ Capacity > 0) => Len(states) = Min(shadow.pushes, Capacity)

\* C28: under any interleaving of Push, Pop, Top, Len, SetCapacity, Set and
\* Get by several callers, each call is atomic under its structure's lock:
\* results and final contents are those of the calls run one by one in the
\* order they took the lock (N Pushes alone on capacity C > 0 leave
\* min(N, C) entries), and every caller that has made a call returns.
C28_CallsAreAtomicAndReturn ==
    /\ []Linearized
    /\ \A c \in Callers : (procs[c].pc # "idle") ~> (procs[c].pc = "idle")

\* a Push in its body, about to drop the oldest entry, while another Push
\* waits for the lock, after two Pushes
C28_Witness ==
    \E c \in Callers, e \in Callers :
        /\ procs[c].op = "Push" /\ procs[c].pc = "s2"
        /\ procs[e].op = "Push" /\ procs[e].pc = "lock"
        /\ shadow.pushes >= 2
        /\ Len(states) > Capacity

----------------------------------------------------------------------------
(* Claims about Reload, Download and the retry budget *)

\* C31: Reload re-issues the request of the current State when the last
\* navigation succeeded; when the last navigation call returned an error, or
\* nothing was loaded yet, it returns PageNotLoaded, makes no round trip and
\* leaves the current State and the history alone.
C31_ReloadOnlyAfterSuccess ==
    [][lastOp' = "Reload" =>
          IF ret # "" \/ state.Request = Nil
          THEN /\ ret' = PageNotLoaded
               /\ stack' = << >>
               /\ state' = state
               /\ states' = states
          ELSE /\ stack' = <<Call(state.Request[1])>>
               /\ ret' = ""]_vars

----------------------------------------------------------------------------
(* Claims about forms *)

\* C32: Input(name, value) sets the value of every field named name and
\* flips the checked flag of every checkbox with that name and value, leaving
\* everything else alone and returning nil; when there is no such field and
\* no such checkbox it returns ElementNotFound and changes nothing.
C32_InputSetsAndToggles ==
    [][lastOp' = "Input" =>
          LET name == form'.arg[1]
              value == form'.arg[2]
              hits == {i \in 1..Len(form.fields) : form.fields[i].name = name}
              ticks == {i \in 1..Len(form.checkboxes) :
                           form.checkboxes[i].name = name /\ form.checkboxes[i].value = value}
          IN /\ Len(form'.fields) = Len(form.fields)
             /\ Len(form'.checkboxes) = Len(form.checkboxes)
             /\ \A i \in 1..Len(form.fields) :
                    form'.fields[i] = IF i \in hits THEN Field(name, value)
                                      ELSE form.fields[i]
             /\ \A i \in 1..Len(form.checkboxes) :
                    form'.checkboxes[i] =
                        IF i \in ticks
                        THEN Checkbox(name, value, ~form.checkboxes[i].checked)
                        ELSE form.checkboxes[i]
             /\ form'.buttons = form.buttons
             /\ IF hits \cup ticks = {}
                THEN /\ form'.err = ElementNotFound(name)
                     /\ form'.fields = form.fields
                     /\ form'.checkboxes = form.checkboxes
                ELSE form'.err = ""]_vars

\* Input("opt", "a") has just unchecked the checkbox that was checked and
\* checked the one that was not, the third being left as it was
C32_Witness ==
    /\ lastOp = "Input"
    /\ form.arg = <<"opt", "a">>
    /\ form.err = ""
    /\ Len(form.checkboxes) = 3
    /\ form.checkboxes[1] = Checkbox("opt", "a", TRUE)
    /\ form.checkboxes[2] = Checkbox("opt", "b", TRUE)
    /\ form.checkboxes[3] = Checkbox("opt", "a", FALSE)

(* the values of the elements of list named n, in order *)
ValuesNamed(list, n) ==
    LET hit == SelectSeq(list, LAMBDA e : e.name = n)
    IN [i \in 1..Len(hit) |-> hit[i].value]

(* the values a form f sends with the buttons b (none or one): under each  *)
(* name its fields, then its checked checkboxes, then the button            *)
Expected(f, b) ==
    LET ticked == SelectSeq(f.checkboxes, LAMBDA c : c.checked)
        names == {f.fields[i].name : i \in 1..Len(f.fields)}
                 \cup {ticked[i].name : i \in 1..Len(ticked)}
                 \cup {b[i].name : i \in 1..Len(b)}
    IN [n \in names |->
           ValuesNamed(f.fields, n) \o ValuesNamed(ticked, n) \o ValuesNamed(b, n)]

(* the values of a form request *)
Sent(req) == IF req.Method = "GET" THEN req.Query ELSE req.Form

\* C33: Submit sends the form with its first button when it has buttons and
\* with none otherwise; Click(name) sends it with the first button of that
\* name, and with no such button returns InvalidFormValue and sends nothing;
\* what is sent is exactly the fields, the checked checkboxes and at most the
\* button used (the button itself whenever it has a name).
C33_SubmitSendsFieldsAndButton ==
    [][lastOp' \in {"Submit", "Click"} =>
          LET wanted == IF lastOp' = "Click" THEN form'.arg[1]
                        ELSE IF form.buttons # << >> THEN form.buttons[1].name
                        ELSE ""
              named == {i \in 1..Len(form.buttons) : form.buttons[i].name = wanted}
              first == CHOOSE i \in named : \A j \in named : i <= j
          IN IF lastOp' = "Submit" /\ form.buttons = << >>
             THEN /\ Len(stack') = 1
                  /\ Sent(stack'[1].req) = Expected(form, << >>)
                  /\ form'.err = ""
             ELSE IF named = {}
             THEN /\ lastOp' = "Click"
                  /\ form'.err = InvalidFormValue(wanted)
                  /\ stack' = << >>
                  /\ fuel' = fuel
                  /\ UNCHANGED <<state, states, att>>
             ELSE /\ Len(stack') = 1
                  /\ lastOp' = "Submit" => first = 1
                  /\ form'.err = ""
                  /\ stack'[1].req.Method = form.method
                  /\ stack'[1].req.URL = form.action
                  /\ IF wanted # ""
                     THEN Sent(stack'[1].req) = Expected(form, <<form.buttons[first]>>)
                     ELSE Sent(stack'[1].req) = Expected(form, << >>)]_vars

\* Submit has sent the search form after Input("q", "new"): both q fields,
\* the two checked checkboxes and the first button, not the other buttons
C33_Witness ==
    /\ lastOp = "Submit"
    /\ Len(stack) = 1
    /\ DOMAIN Head(stack).req.Query = {"q", "lang", "opt", "go"}
    /\ Head(stack).req.Query["q"] = <<"new", "new">>
    /\ Head(stack).req.Query["opt"] = <<"b", "a">>
    /\ Head(stack).req.Query["go"] = <<"Go">>

----------------------------------------------------------------------------
(* Claims about the session between navigations *)

\* C34: between navigations the bytes Download writes are the bytes the
\* current State's document was parsed from, and when that State has a
\* response with a body they are the page of that response.
C34_DownloadIsCurrentPage ==
    (stack = << >> /\ state.Dom # Nil) =>
        /\ Parse(Download) = state.Dom[1]
        /\ (state.Response # Nil /\ state.Response[1].Body # Nil)
           => Download.doc = state.Response[1].Body[1].doc

\* C35: whenever no navigation is in progress the reload counter is 0.
C35_CounterZeroWhenIdle ==
    stack = << >> => reloadCounter = 0

C37_FollowUpErrorReturned ==
    [][(/\ Len(stack) >= 2
        /\ stack[1].pc = "ret"
        /\ stack[2].pc \in {"solveA", "solveB"}
        /\ stack[1].err # ""
        /\ lastOp' = "Return")
       => Head(stack').err # ""]_vars

----------------------------------------------------------------------------
(* Claims about Back *)

\* C38: when callers run Back (or Back and a Pop on the history) at the same
\* time on a history of two entries, the Pop of a Back that saw two entries
\* still finds two entries, removes the top one and installs it as the
\* current State; the bottom entry stays in the history and is not installed.
C38_BackPopsWhatItChecked ==
    [][\A c \in Callers :
          (/\ procs[c].pc = "backPop"
           /\ procs[c].want = Some(2)
           /\ procs'[c].pc = "backRet")
          => /\ Len(states) = 2
             /\ states' = <<states[1]>>
             /\ state' = states[2]]_vars

\* C39: in sequential use, once a navigation has reached httpRequestComplete
\* the current State has a request and a document, and it keeps them through
\* every later navigation, Reload and Back: the initial empty State, the
\* bottom entry of the history, is never made current again.
C39_EmptyStateNeverCurrentAgain ==
    [][((state.Request # Nil /\ state.Dom # Nil) \/ installs' > installs)
       => /\ state'.Request # Nil
          /\ state'.Dom # Nil
          /\ state' # EmptyState]_vars

C39_Witness ==
    /\ lastOp = "Back"
    /\ backOk
    /\ states = <<EmptyState>>
    /\ state.Request # Nil
    /\ state.Dom # Nil

\* C40: a session of NewBrowser starts with history capacity 0 and an empty
\* history; as long as the capacity is below 2 the history stays below two
\* entries whatever is navigated, and Back returns false.
C40_NoBackBelowCapacityTwo ==
    /\ Capacity = 0 /\ states = << >>
    /\ [][(Capacity < 2 /\ HistoryLen(states) < 2 /\ Capacity' < 2)
          => /\ HistoryLen(states') < 2
             /\ (lastOp' = "Back" => ~backOk' /\ state' = state)]_vars

C40_Witness ==
    /\ lastOp = "Back"
    /\ ~backOk
    /\ Capacity = 1
    /\ HistoryLen(states) = 1
    /\ states[1] # EmptyState
    /\ fuel >= 3
====
